---- MODULE Spec2Model ----
(***************************************************************************)
(* Camera session and concurrency controller of src/camera_app.py          *)
(* (class CameraApp): the main loop `run`, the GPIO button callback, the   *)
(* evdev touch reader thread, the one-shot `_lazy_init` thread, the WiFi   *)
(* scan thread, the UDP remote channel, the still-capture transition and   *)
(* the standby controller.                                                 *)
(*                                                                         *)
(* Time is counted in units of 0.1 s.  Picamera2, subprocess and the       *)
(* socket are external: a call into them either returns or raises, and     *)
(* which of the two happens is chosen nondeterministically (at most        *)
(* MaxFaults times per behaviour).  A call that raises has no effect on    *)
(* the modelled backend state.                                             *)
(***************************************************************************)
EXTENDS Integers, Sequences, FiniteSets, TLC

\* ------------------------------------------------------------------ bounds
\* The main loop runs MaxTicks + 1 iterations (and more_ticks more in the
\* scenarios that say so).
MaxTicks == 1
MaxFaults == 2
MaxTouches == 3
MaxDatagrams == 2
MaxPresses == 2
MaxQueue == 2
MaxPublishes == 2
MaxReads == 2
MaxEvents == 5

\* write() calls (blocks) that make up one file
Chunks == 2

\* ------------------------------------------------------- program constants
BUTTON_DEBOUNCE == 3
HEARTBEAT_TIMEOUT == 100
SHM_SYNC_INTERVAL == 2
CAPTURE_FLASH_SLEEP == 1
CAPTURE_SETTLE_SLEEP == 3
WAKE_HDMI_SLEEP == 5
ISO_LEN == 8
SHUTTER_LEN == 13
WIDTH == 480
HEIGHT == 320
SIDEBAR_WIDTH == 84
PREVIEW_BUFFER_INIT == 1
PREVIEW_BUFFER_RESTORE == 2
STILL_BUFFER_DEFAULT == 1
\* time.time()/time.monotonic() at the moment run() starts
StartTime == 3

ISO_VALUES == <<"Auto", "100", "200", "400", "800", "1600", "3200", "6400">>

touch_cal == [x_min |-> 280, x_max |-> 3820, y_min |-> 290, y_max |-> 3910,
              swap_xy |-> TRUE, invert_x |-> TRUE, invert_y |-> TRUE]

\* Raw (ABS_X, ABS_Y) pairs of the touch panel, named by what the click they
\* calibrate to hits on the screen (left column / right column, by row).
RAW_SHUTTER_UP == <<898, 565>>       \* popup: shutdown; gallery: back
RAW_POWER == <<898, 3368>>           \* popup: standby
RAW_SHUTTER_DOWN == <<2312, 565>>    \* popup: server
RAW_GALLERY == <<2312, 3368>>        \* popup: hotspot
RAW_ISO_UP == <<2539, 565>>
RAW_ISO_DOWN == <<3670, 565>>        \* popup: wifi
RAW_BW == <<3670, 3368>>
ArrowPoints == {RAW_SHUTTER_UP, RAW_SHUTTER_DOWN, RAW_ISO_UP, RAW_ISO_DOWN}

Commands == {"START_REMOTE", "STOP_REMOTE", "HEARTBEAT", "CAPTURE",
             "ISO_UP", "ISO_DOWN", "SHUTTER_UP", "SHUTTER_DOWN"}
\* "FOO" is an unrecognized token, "\\xff" a datagram that is not valid UTF-8
Datagrams == Commands \cup {"FOO", "\\xff"}
SettingCommands == {"ISO_UP", "ISO_DOWN", "SHUTTER_UP", "SHUTTER_DOWN"}

PowerDownDirectives == <<"backlight_sysfs", "backlight_gpio", "fb_blank",
                         "hdmi_off", "cpu_powersave", "led_off">>

\* --------------------------------------------------- apply_camera_settings
\* table[i] of a Python list: entry i counted from 0, and from the end of
\* the list when i is negative
Item(table, i) == table[IF i < 0 THEN Len(table) + i + 1 ELSE i + 1]

SHUTTER_SPEEDS == <<0, 500, 1000, 1250, 2000, 4000, 8000, 16666, 33333,
                    66667, 100000, 125000, 250000>>
\* the display labels of the SHUTTER_SPEEDS entries
SHUTTER_LABELS == <<"Auto", "1/2000", "1/1000", "1/800", "1/500", "1/250",
                    "1/125", "1/60", "1/30", "1/15", "1/10", "1/8", "1/4">>
\* int(iso) of the ISO_VALUES entries; 0 stands for "Auto"
ISO_NUMBERS == <<0, 100, 200, 400, 800, 1600, 3200, 6400>>
\* a control that no set_controls call has given yet
Unset == -1
ControlNames == {"AeEnable", "AnalogueGain", "FrameRate", "ExposureTime",
                 "Saturation", "AePowerLineFrequency"}
NoControls == [c \in ControlNames |-> Unset]

\* mutant: the B/W control is flipped at every call
SaturationUpdate_toggles(c, gray) ==
    [name |-> "Saturation", value |-> IF c["Saturation"] = 0 THEN 1 ELSE 0]
\* {"Saturation": 0.0} in B/W mode, {"Saturation": 1.0} otherwise
SaturationUpdate(c, gray) ==
    [name |-> "Saturation", value |-> IF gray THEN 0 ELSE 1]

\* mutant: the frame rate stays at 30 fps for every exposure
ControlUpdates_fixed30(c, s) ==
    LET iso == Item(ISO_NUMBERS, s[1])
        shutter_us == Item(SHUTTER_SPEEDS, s[2])
        first == IF iso = 0
                 THEN [name |-> "AeEnable", value |-> 1]
                 ELSE [name |-> "AnalogueGain", value |-> iso]
        rate == [name |-> "FrameRate", value |-> 0]
        third == IF shutter_us > 0
                 THEN [name |-> "ExposureTime", value |-> shutter_us]
                 ELSE [name |-> "AeEnable", value |-> 1]
    IN  <<first, rate, third, SaturationUpdate(c, s[3]),
          [name |-> "AePowerLineFrequency", value |-> 1]>>

\* The set_controls calls of apply_camera_settings for the settings
\* s = <<iso index, shutter index, grayscale>>, in the order of the code.
\* Values are integers: True is 1, AnalogueGain is the ISO number
\* (gain * 100), FrameRate is 0 for (30.0, 30.0) and shutter_us for
\* (0.1, 1000000.0 / shutter_us).
ControlUpdates(c, s) ==
    LET iso == Item(ISO_NUMBERS, s[1])
        shutter_us == Item(SHUTTER_SPEEDS, s[2])
        first == IF iso = 0
                 THEN [name |-> "AeEnable", value |-> 1]
                 ELSE [name |-> "AnalogueGain", value |-> iso]
        rate == IF shutter_us > 0 /\ 30 * shutter_us > 1000000
                THEN [name |-> "FrameRate", value |-> shutter_us]
                ELSE [name |-> "FrameRate", value |-> 0]
        third == IF shutter_us > 0
                 THEN [name |-> "ExposureTime", value |-> shutter_us]
                 ELSE [name |-> "AeEnable", value |-> 1]
    IN  <<first, rate, third, SaturationUpdate(c, s[3]),
          [name |-> "AePowerLineFrequency", value |-> 1]>>
NUpdates == 5
\* the first three calls are not inside a try block
NUnguarded == 3

\* The controls after apply_camera_settings when its call number `failing`
\* raises (0: none does): an exception of an unguarded call ends the
\* function, one of the last two calls is caught and only that call is lost.
RECURSIVE ApplyFrom(_, _, _, _)
ApplyFrom(c, updates, i, failing) ==
    IF i > Len(updates) THEN c
    ELSE IF i = failing
         THEN IF i <= NUnguarded THEN c
              ELSE ApplyFrom(c, updates, i + 1, failing)
         ELSE ApplyFrom([c EXCEPT ![updates[i].name] = updates[i].value],
                        updates, i + 1, failing)
Applied(c, s, failing) == ApplyFrom(c, ControlUpdates(c, s), 1, failing)

\* history of one apply_camera_settings call that took the controls from
\* `before` to `after`: did every set_controls call succeed, did any control
\* change
ApplyOutcome(before, after, s) ==
    [clean |-> after = Applied(before, s, 0), moved |-> after # before]


VARIABLES
    pc,                    \* position of the main loop inside run()
    ticks,                 \* completed iterations of the main loop
    now,                   \* clock
    camera_started, camera_config, buffer_count,    \* Picamera2 backend
    controls,              \* the controls given to set_controls so far
    capture_pending, last_capture_time,
    standby_mode, saved_brightness,
    remote_active, remote_last_heartbeat,
    current_iso_index, current_shutter_index, grayscale_mode,
    mode, show_power_popup, show_wifi_popup,
    touch_queue,           \* queue.Queue of ('click', x, y)
    sock,                  \* datagrams waiting in the UDP socket
    lazy_pc,               \* _lazy_init thread
    touch_thread,          \* touch reader thread: "none", "running", "dead"
    reader,                \* its locals raw_x, raw_y, touch_active
    scan_threads,          \* running scan_wifi_networks threads
    last_input,            \* the input the main loop handled last
    callers,               \* threads that have invoked a backend or power operation
    env,                   \* the inputs and faults still to come
    shm,                   \* /tmp: the preview and status files, their reader
    last_preview_time,     \* update_preview: time of the last frame
    last_shm_sync,         \* update_preview: time of the last copy to /tmp
    hist                   \* history: what the last operations did

camVars == <<camera_started, camera_config, buffer_count, controls>>
settingsVars == <<current_iso_index, current_shutter_index, grayscale_mode>>
remoteVars == <<remote_active, remote_last_heartbeat>>
uiVars == <<mode, show_power_popup, show_wifi_popup>>
threadVars == <<lazy_pc, touch_thread, reader, scan_threads>>
inputVars == <<touch_queue, sock, last_input>>
syncVars == <<last_preview_time, last_shm_sync>>

vars == <<pc, ticks, now, camera_started, camera_config, buffer_count, controls,
          capture_pending, last_capture_time, standby_mode, saved_brightness,
          remote_active, remote_last_heartbeat, current_iso_index,
          current_shutter_index, grayscale_mode, mode, show_power_popup,
          show_wifi_popup, touch_queue, sock, lazy_pc, touch_thread, reader,
          scan_threads, last_input, callers, env, shm, last_preview_time,
          last_shm_sync, hist>>

\* ----------------------------------------------------------------- helpers
Min(a, b) == IF a < b THEN a ELSE b
Max(a, b) == IF a > b THEN a ELSE b

\* pygame.Rect.collidepoint: left <= x < left + w and top <= y < top + h
collidepoint(r, x, y) ==
    /\ r.x <= x /\ x < r.x + r.w
    /\ r.y <= y /\ y < r.y + r.h

\* Rectangles of setup_ui for the 480x320 display (scale 1.2)
shutter_up_rect == [x |-> 18, y |-> 10, w |-> 48, h |-> 48]
shutter_down_rect == [x |-> 18, y |-> 135, w |-> 48, h |-> 48]
iso_up_rect == [x |-> 18, y |-> 170, w |-> 48, h |-> 48]
iso_down_rect == [x |-> 18, y |-> 295, w |-> 48, h |-> 48]
power_rect == [x |-> 402, y |-> 12, w |-> 72, h |-> 72]
gallery_rect == [x |-> 402, y |-> 124, w |-> 72, h |-> 72]
bw_rect == [x |-> 402, y |-> 236, w |-> 72, h |-> 72]
popup_shutdown_btn == [x |-> 37, y |-> 51, w |-> 194, h |-> 81]
popup_standby_btn == [x |-> 249, y |-> 51, w |-> 194, h |-> 81]
popup_server_btn == [x |-> 37, y |-> 141, w |-> 194, h |-> 81]
popup_hotspot_btn == [x |-> 249, y |-> 141, w |-> 194, h |-> 81]
popup_wifi_btn == [x |-> 37, y |-> 231, w |-> 194, h |-> 81]
popup_cancel_btn == [x |-> 143, y |-> 240, w |-> 194, h |-> 48]
back_btn_rect == [x |-> 10, y |-> 10, w |-> 80, h |-> 60]
trash_btn_rect == [x |-> 390, y |-> 10, w |-> 80, h |-> 60]
wifi_back_rect == [x |-> 10, y |-> 10, w |-> 100, h |-> 50]

\* calibrate_touch with self.touch_cal = env.cal (touch_cal unless a
\* scenario says otherwise): swap, normalize, invert, clamp, scale and truncate.  The
\* normalized value is kept as the exact numerator over (max - min); the
\* code computes it in binary floating point, with the same result on every
\* RAW_* point above.
\* mutant: swap_xy is ignored
calibrate_touch_unswapped(raw_x, raw_y) ==
    LET cal == env.cal
        dx == cal.x_max - cal.x_min
        dy == cal.y_max - cal.y_min
        nx == IF cal.invert_x THEN dx - (raw_x - cal.x_min)
              ELSE raw_x - cal.x_min
        ny == IF cal.invert_y THEN dy - (raw_y - cal.y_min)
              ELSE raw_y - cal.y_min
        cx == Max(0, Min(dx, nx))
        cy == Max(0, Min(dy, ny))
    IN  <<(cx * WIDTH) \div dx, (cy * HEIGHT) \div dy>>

\* mutant: the axes are not inverted while the power popup is shown
calibrate_touch_modal(raw_x, raw_y) ==
    LET cal == env.cal
        rx == IF cal.swap_xy THEN raw_y ELSE raw_x
        ry == IF cal.swap_xy THEN raw_x ELSE raw_y
        dx == cal.x_max - cal.x_min
        dy == cal.y_max - cal.y_min
        nx == IF cal.invert_x /\ ~show_power_popup
              THEN dx - (rx - cal.x_min) ELSE rx - cal.x_min
        ny == IF cal.invert_y /\ ~show_power_popup
              THEN dy - (ry - cal.y_min) ELSE ry - cal.y_min
        cx == Max(0, Min(dx, nx))
        cy == Max(0, Min(dy, ny))
    IN  <<(cx * WIDTH) \div dx, (cy * HEIGHT) \div dy>>

calibrate_touch(raw_x, raw_y) ==
    LET cal == env.cal
        rx == IF cal.swap_xy THEN raw_y ELSE raw_x
        ry == IF cal.swap_xy THEN raw_x ELSE raw_y
        dx == cal.x_max - cal.x_min
        dy == cal.y_max - cal.y_min
        nx == IF cal.invert_x THEN dx - (rx - cal.x_min) ELSE rx - cal.x_min
        ny == IF cal.invert_y THEN dy - (ry - cal.y_min) ELSE ry - cal.y_min
        cx == Max(0, Min(dx, nx))
        cy == Max(0, Min(dy, ny))
    IN  <<(cx * WIDTH) \div dx, (cy * HEIGHT) \div dy>>

\* One more external call raises: allowed while the fault env lasts.
MayRaise(raises) == raises => env.faults > 0
Spend(b, raises) == IF raises THEN [b EXCEPT !.faults = @ - 1] ELSE b

\* mutant: capture_photo without the debounce test
Debounced_never(t) == FALSE
\* mutant: the lease is ten times too long
HeartbeatExpired_late(t) == t - remote_last_heartbeat > 10 * HEARTBEAT_TIMEOUT
HeartbeatExpired(t) == t - remote_last_heartbeat > HEARTBEAT_TIMEOUT
Debounced(t) == t - last_capture_time < BUTTON_DEBOUNCE

\* The files of /tmp shared with photo_server.py.  A file is an inode
\* [ver, len]: the version that wrote it and how many of the Chunks blocks
\* of that version it holds; shm.dir maps a path to its inode (0: no file).
SHARED_MEM_PREVIEW == "/tmp/camera_preview.jpg"
SHARED_MEM_STATUS == "/tmp/camera_status.json"
\* mutant: the file is written in place
TempPath_inplace(path) == path
\* f"{SHARED_MEM_PREVIEW}.tmp", f"{SHARED_MEM_STATUS}.tmp"
TempPath(path) ==
    IF path = SHARED_MEM_PREVIEW THEN "/tmp/camera_preview.jpg.tmp"
    ELSE "/tmp/camera_status.json.tmp"
Paths == {SHARED_MEM_PREVIEW, SHARED_MEM_STATUS,
          "/tmp/camera_preview.jpg.tmp", "/tmp/camera_status.json.tmp"}

\* History of the remote channel: no datagram handled yet in this drain
NoLog == [cmd |-> "none"]

\* ------------------------------------------------------------------- Init
\* The state when run() is entered, for a scenario e: how many inputs of
\* each kind and how many failing external calls are still to come, which
\* touch points, datagrams and loop durations occur.
Start(e) ==
    /\ pc = "top"
    /\ ticks = 0
    /\ now = StartTime
    /\ camera_started = TRUE
    /\ camera_config = "preview"
    /\ buffer_count = PREVIEW_BUFFER_INIT
    /\ controls = (e @@ [prior |-> NoControls]).prior
    /\ capture_pending = FALSE
    /\ last_capture_time = 0
    /\ standby_mode = FALSE
    /\ saved_brightness = "None"
    /\ remote_active = FALSE
    /\ remote_last_heartbeat = 0
    /\ current_iso_index = 0
    /\ current_shutter_index = 0
    /\ grayscale_mode = FALSE
    /\ mode = "camera"
    /\ show_power_popup = FALSE
    /\ show_wifi_popup = FALSE
    /\ touch_queue = <<>>
    /\ sock = <<>>
    /\ lazy_pc = "sleep"
    /\ touch_thread = "none"
    /\ reader = [raw_x |-> 0, raw_y |-> 0, touch_active |-> FALSE]
    /\ scan_threads = 0
    /\ last_input = [kind |-> "none", standby |-> FALSE]
    /\ callers = {"main"}
    /\ env = [last_press |-> 0] @@ e @@ [publishes |-> 0, reads |-> 0, events |-> 0, more_ticks |-> 0,
                                             prior |-> NoControls,
                                             cal |-> touch_cal]
    /\ last_preview_time = 0
    /\ last_shm_sync = 0
    /\ shm = [inodes |-> <<>>, dir |-> [p \in Paths |-> 0], ver |-> 0,
              wpath |-> SHARED_MEM_PREVIEW, wfd |-> 0,
              rfd |-> 0, rbase |-> 0, rgot |-> <<>>, rdone |-> FALSE]
    /\ hist = [cap_ran |-> FALSE, fwd_raised |-> FALSE, rec_raised |-> FALSE,
               transitions |-> 0, step_calls |-> 0, sets |-> 0, seen |-> 0,
               ntrig |-> 0, first_trig |-> 0, last_trig |-> 0,
               bad_configure |-> FALSE,
               standby_log |-> [entered |-> FALSE, issued |-> <<>>,
                               failed |-> 0, stopped |-> FALSE],
               wake_log |-> [woke |-> FALSE, this_tick |-> FALSE,
                             raised |-> FALSE, fallback |-> 0],
               last_change |-> [what |-> "none", src |-> "none", before |-> 0],
               expired |-> FALSE,
               session |-> "created",
               prev_capture |-> 0,
               pre_buffers |-> PREVIEW_BUFFER_INIT,
               ok_end |-> -1,
               applied |-> [clean |-> FALSE, moved |-> FALSE],
               pub |-> [n |-> 0, prev |-> 0, last |-> 0, wrote |-> <<>>,
                       done |-> FALSE, tick |-> 0, standby |-> FALSE],
               capture_cmd_tick |-> -1,
               reapply |-> "none",
               absorbed |-> 0,
               click |-> [raw |-> <<0, 0>>, out |-> <<>>],
               ev |-> [type |-> "none", x |-> 0, y |-> 0, pressed |-> FALSE,
                       released |-> FALSE, put |-> FALSE,
                       clicks |-> 0, pairs |-> 0],
               udp_log |-> NoLog]

\* All threads; clicks on the power button and on the WiFi entry of the
\* power popup.
Init ==
    Start([faults |-> 1, touches |-> MaxTouches - 1, datagrams |-> 1,
           presses |-> MaxPresses - 1,
           points |-> {RAW_POWER, RAW_ISO_DOWN},
           tokens |-> {"CAPTURE", "ISO_UP", "\\xff"},
           durations |-> {1}])

\* The button and remote CAPTURE commands, with failing backend calls.
InitCapture ==
    Start([faults |-> MaxFaults, touches |-> 0, datagrams |-> MaxDatagrams,
           presses |-> MaxPresses,
           points |-> {},
           tokens |-> {"CAPTURE"},
           durations |-> {0, 1, 2}])

\* Standby and wake by the power popup, the remote session lease.
InitPower ==
    Start([faults |-> MaxFaults - 1, touches |-> MaxTouches, datagrams |-> 1,
           presses |-> 1,
           points |-> {RAW_POWER},
           tokens |-> {"START_REMOTE", "HEARTBEAT", "ISO_UP"},
           durations |-> {1, HEARTBEAT_TIMEOUT + 1}])

\* The ISO and shutter arrows and the remote setting commands.
InitSettings ==
    Start([faults |-> 1, touches |-> MaxTouches - 1,
           datagrams |-> MaxDatagrams - 1, presses |-> 0,
           points |-> ArrowPoints,
           tokens |-> SettingCommands,
           durations |-> {1}])

\* Backend control states that an earlier use of the camera may have left:
\* nothing set, everything automatic, everything manual, a mixture.
PriorControls ==
    { NoControls,
      [NoControls EXCEPT !["AeEnable"] = 1, !["FrameRate"] = 0,
                         !["Saturation"] = 1, !["AePowerLineFrequency"] = 1],
      [NoControls EXCEPT !["AnalogueGain"] = 800, !["FrameRate"] = 125000,
                         !["ExposureTime"] = 125000, !["Saturation"] = 0,
                         !["AePowerLineFrequency"] = 1],
      [NoControls EXCEPT !["AeEnable"] = 1, !["AnalogueGain"] = 6400,
                         !["ExposureTime"] = 500, !["Saturation"] = 0] }

\* The setting arrows, the B/W button and the remote setting commands on
\* a backend whose controls are in any of the prior states.
InitControls ==
    \E prior \in PriorControls :
        Start([faults |-> 1, touches |-> MaxTouches - 2,
               datagrams |-> MaxDatagrams - 1, presses |-> 0,
               points |-> ArrowPoints \cup {RAW_BW},
               tokens |-> SettingCommands,
               durations |-> {1},
               prior |-> prior])

\* ------------------------------------------------- the steps of run()
\* mutant: the remote channel is drained before the touch queue
NextStep_swapped(step) ==
    CASE step = "flag" -> "udp"
      [] step = "udp" -> "touch"
      [] step = "touch" -> "preview"
      [] step = "preview" -> "tick_end"
      [] step = "tick_end" -> "top"
\* The position of the main loop after a step of an iteration of run():
\* the capture flag, the touch queue, udp_check, the preview branch,
\* flip()/clock.tick().  (The battery refresh and the pygame event loop
\* between udp_check and the preview branch hold no state of the model.)
NextStep(step) ==
    CASE step = "flag" -> "touch"
      [] step = "touch" -> "udp"
      [] step = "udp" -> "preview"
      [] step = "preview" -> "tick_end"
      [] step = "tick_end" -> "top"

\* ------------------------------------------------- threads other than main
Alive == pc # "exit"

NoteTrigger(h) ==
    [h EXCEPT !.sets = @ + 1, !.ntrig = @ + 1,
              !.first_trig = IF h.ntrig = 0 THEN now ELSE @,
              !.last_trig = now]

\* mutant: the callback performs the capture's first backend call itself
trigger_capture_direct(t) ==
    /\ capture_pending' = TRUE
    /\ callers' = callers \cup {t}
    /\ camera_started' = FALSE
    /\ UNCHANGED <<camera_config, controls, buffer_count>>

\* mutant: the callback also sets the buffer count of the backend
trigger_capture_buffers(t) ==
    /\ capture_pending' = TRUE
    /\ buffer_count' = PREVIEW_BUFFER_RESTORE
    /\ UNCHANGED <<camera_started, camera_config, controls, callers>>

\* trigger_capture, run by thread t: a single write of the flag
trigger_capture(t) ==
    /\ capture_pending' = TRUE
    /\ UNCHANGED <<camVars, callers>>

\* Button(GPIO_BUTTON_PIN, bounce_time=BUTTON_DEBOUNCE): gpiozero invokes
\* when_pressed on its own thread, and ignores the edges that follow an
\* edge by less than bounce_time
GpioPress ==
    /\ Alive
    /\ env.presses > 0
    /\ now - env.last_press >= BUTTON_DEBOUNCE
    /\ trigger_capture("gpio")
    /\ UNCHANGED <<shm, syncVars>>
    /\ env' = [env EXCEPT !.presses = @ - 1, !.last_press = now]
    /\ hist' = NoteTrigger(hist)
    /\ UNCHANGED <<pc, ticks, now, last_capture_time, standby_mode,
                   saved_brightness, remoteVars, settingsVars, uiVars,
                   inputVars, threadVars>>

\* _lazy_init: battery manager, touch device discovery, photo list
LazyInit ==
    /\ Alive
    /\ lazy_pc = "sleep"
    /\ lazy_pc' = "done"
    /\ \E found \in BOOLEAN :
          touch_thread' = IF found THEN "running" ELSE "none"
    /\ UNCHANGED reader
    /\ UNCHANGED <<pc, ticks, now, camVars, capture_pending, last_capture_time,
                   standby_mode, saved_brightness, remoteVars, settingsVars,
                   uiVars, inputVars, scan_threads, callers, env, shm, syncVars,
                   hist>>

\* history: the raw input and the result of the last calibrate_touch call
Clicked(h, raw, out) == [h EXCEPT !.click = [raw |-> raw, out |-> out]]

\* touch_reader_thread: axis events followed by a press and a release of
\* BTN_TOUCH enqueue one calibrated click.  A gesture sets both axes
\* before its release, so what it leaves in the locals of the thread is
\* never read: they are followed event by event in TouchEvent only.
TouchGesture ==
    /\ Alive
    /\ touch_thread = "running"
    /\ env.touches > 0
    /\ Len(touch_queue) < MaxQueue
    /\ \E raw \in env.points :
          touch_queue' = Append(touch_queue, calibrate_touch(raw[1], raw[2]))
    /\ UNCHANGED <<shm, syncVars>>
    /\ env' = [env EXCEPT !.touches = @ - 1]
    /\ UNCHANGED <<pc, ticks, now, camVars, capture_pending, last_capture_time,
                   standby_mode, saved_brightness, remoteVars, settingsVars,
                   uiVars, sock, last_input, threadVars, callers, hist>>

\* The evdev events of the panel: axis values taken from the points pts,
\* BTN_TOUCH press (1) and release (0), pressure and synchronisation events.
Events(pts) ==
    [type : {"EV_ABS"}, code : {"ABS_X"}, value : {q[1] : q \in pts}]
    \cup [type : {"EV_ABS"}, code : {"ABS_Y"}, value : {q[2] : q \in pts}]
    \cup [type : {"EV_ABS"}, code : {"ABS_PRESSURE"}, value : {1}]
    \cup [type : {"EV_KEY"}, code : {"BTN_TOUCH"}, value : {0, 1}]
    \cup [type : {"EV_SYN"}, code : {"SYN_REPORT"}, value : {0}]

IsPress(ev) == ev.type = "EV_KEY" /\ ev.code = "BTN_TOUCH" /\ ev.value = 1
IsRelease(ev) == ev.type = "EV_KEY" /\ ev.code = "BTN_TOUCH" /\ ev.value = 0

\* mutant: a release leaves touch_active set
ReaderStep_sticky(r, ev) ==
    IF ev.type = "EV_ABS" /\ ev.code = "ABS_X" THEN [r EXCEPT !.raw_x = ev.value]
    ELSE IF ev.type = "EV_ABS" /\ ev.code = "ABS_Y" THEN [r EXCEPT !.raw_y = ev.value]
    ELSE IF IsPress(ev) THEN [r EXCEPT !.touch_active = TRUE]
    ELSE r
\* the locals of touch_reader_thread after one event of read_loop
ReaderStep(r, ev) ==
    IF ev.type = "EV_ABS" /\ ev.code = "ABS_X" THEN [r EXCEPT !.raw_x = ev.value]
    ELSE IF ev.type = "EV_ABS" /\ ev.code = "ABS_Y" THEN [r EXCEPT !.raw_y = ev.value]
    ELSE IF IsPress(ev) THEN [r EXCEPT !.touch_active = TRUE]
    ELSE IF IsRelease(ev) /\ r.touch_active THEN [r EXCEPT !.touch_active = FALSE]
    ELSE r
\* `if touch_active:` under the release branch
Enqueues(r, ev) == IsRelease(ev) /\ r.touch_active

\* history: the axis values, presses and releases delivered so far, kept
\* apart from the locals of the thread, and whether event ev enqueued
Heard(h, ev, put) ==
    [h EXCEPT !.ev =
        [type |-> ev.code,
         x |-> IF ev.code = "ABS_X" THEN ev.value ELSE @.x,
         y |-> IF ev.code = "ABS_Y" THEN ev.value ELSE @.y,
         pressed |-> IF IsPress(ev) THEN TRUE
                     ELSE IF IsRelease(ev) THEN FALSE ELSE @.pressed,
         released |-> IsRelease(ev),
         put |-> put,
         clicks |-> IF put THEN @.clicks + 1 ELSE @.clicks,
         pairs |-> IF IsRelease(ev) /\ @.pressed THEN @.pairs + 1
                   ELSE @.pairs]]

\* touch_reader_thread: one event of read_loop
TouchEvent ==
    /\ Alive
    /\ touch_thread = "running"
    /\ env.events > 0
    /\ \E ev \in Events(env.points) :
          LET put == Enqueues(reader, ev)
              out == calibrate_touch(reader.raw_x, reader.raw_y)
          IN  /\ put => Len(touch_queue) < MaxQueue
              /\ reader' = ReaderStep(reader, ev)
              /\ touch_queue' = IF put THEN Append(touch_queue, out)
                                ELSE touch_queue
              /\ hist' = Heard(IF put
                               THEN Clicked(hist, <<reader.raw_x, reader.raw_y>>,
                                            out)
                               ELSE hist, ev, put)
    /\ UNCHANGED <<shm, syncVars>>
    /\ env' = [env EXCEPT !.events = @ - 1]
    /\ UNCHANGED <<pc, ticks, now, camVars, capture_pending, last_capture_time,
                   standby_mode, saved_brightness, remoteVars, settingsVars,
                   uiVars, sock, last_input, lazy_pc, touch_thread,
                   scan_threads, callers>>

\* read_loop raises (device gone): the reader thread ends
TouchReaderError ==
    /\ Alive
    /\ touch_thread = "running"
    /\ env.faults > 0
    /\ touch_thread' = "dead"
    /\ UNCHANGED <<shm, syncVars, reader>>
    /\ env' = Spend(env, TRUE)
    /\ UNCHANGED <<pc, ticks, now, camVars, capture_pending, last_capture_time,
                   standby_mode, saved_brightness, remoteVars, settingsVars,
                   uiVars, inputVars, lazy_pc, scan_threads, callers,
                   hist>>

\* scan_wifi_networks, on its own thread, runs to its end
ScanWifi ==
    /\ Alive
    /\ scan_threads > 0
    /\ scan_threads' = scan_threads - 1
    /\ UNCHANGED <<pc, ticks, now, camVars, capture_pending, last_capture_time,
                   standby_mode, saved_brightness, remoteVars, settingsVars,
                   uiVars, inputVars, lazy_pc, touch_thread, reader, callers,
                   env, shm, syncVars, hist>>

\* a datagram reaches the socket bound to UDP_PORT
DatagramArrives ==
    /\ Alive
    /\ env.datagrams > 0
    /\ Len(sock) < MaxQueue
    /\ \E d \in env.tokens : sock' = Append(sock, d)
    /\ UNCHANGED <<shm, syncVars>>
    /\ env' = [env EXCEPT !.datagrams = @ - 1]
    /\ UNCHANGED <<pc, ticks, now, camVars, capture_pending, last_capture_time,
                   standby_mode, saved_brightness, remoteVars, settingsVars,
                   uiVars, touch_queue, last_input, threadVars, callers, hist>>

\* ------------------------------------------------------ capture_photo steps
\* History of the settings on a backend restarted for the preview: "due"
\* from a configure-and-start for the preview until apply_camera_settings
\* is called, "missed" once update_preview has asked the backend for a
\* frame while it was due.
Restarted(r) == IF r = "missed" THEN r ELSE "due"
Reapplied(r) == IF r = "missed" THEN r ELSE "none"
FrameAsked(r) == IF r = "due" THEN "missed" ELSE r

\* What the main loop leaves alone while it is inside capture_photo.
capFrame == <<ticks, capture_pending, last_capture_time, standby_mode,
              saved_brightness, remoteVars, settingsVars, uiVars, inputVars,
              threadVars>>

\* One backend call of capture_photo at position `here`, after sleeping dt:
\* on return the backend becomes <<started, config, buffers>> and control
\* moves to ok_pc, on an exception nothing changes and control moves to
\* raise_pc (the except block, or past it when already inside it).
BackendCall(here, ok_pc, raise_pc, started, config, buffers, dt, configures) ==
    /\ pc = here
    /\ now' = now + dt
    /\ callers' = callers \cup {"main"}
    /\ \E raises \in BOOLEAN :
          /\ MayRaise(raises)
          /\ UNCHANGED <<shm, syncVars>>
          /\ env' = Spend(env, raises)
          /\ IF raises
             THEN /\ pc' = raise_pc
                  /\ UNCHANGED <<camera_started, camera_config, buffer_count>>
                  /\ IF here = "cap_apply"
                     THEN \E k \in 1..NUnguarded :
                             controls' = Applied(controls, settingsVars, k)
                     ELSE UNCHANGED controls
                  /\ hist' = [hist EXCEPT
                        !.bad_configure = @ \/ (configures /\ camera_started),
                        !.applied = IF here = "cap_apply"
                                    THEN ApplyOutcome(controls, controls',
                                                      settingsVars)
                                    ELSE @,
                        !.fwd_raised = @ \/ raise_pc = "rec_stop",
                        !.rec_raised = @ \/ raise_pc = "clear"]
             ELSE /\ pc' = ok_pc
                  /\ camera_started' = started
                  /\ camera_config' = config
                  /\ buffer_count' = buffers
                  /\ controls' = IF here = "cap_apply"
                                 THEN Applied(controls, settingsVars, 0)
                                 ELSE controls
                  /\ hist' = [hist EXCEPT
                        !.bad_configure = @ \/ (configures /\ camera_started),
                        !.applied = IF here = "cap_apply"
                                    THEN ApplyOutcome(controls, controls',
                                                      settingsVars)
                                    ELSE @,
                        !.reapply = IF here \in {"res_start", "rec_start"}
                                    THEN Restarted(@)
                                    ELSE IF here = "cap_apply"
                                    THEN Reapplied(@) ELSE @,
                        !.ok_end = IF here = "res_start" THEN now + dt ELSE @]
    /\ UNCHANGED capFrame

\* run(): `if self.capture_pending: self.capture_photo()` up to the debounce
\* check of capture_photo
LoopTop ==
    /\ pc = "top"
    /\ IF capture_pending
       THEN IF Debounced(now)
            THEN /\ pc' = "clear"
                 /\ UNCHANGED last_capture_time
                 /\ hist' = [hist EXCEPT !.seen = hist.sets, !.sets = 0, !.absorbed = 0,
                                         !.step_calls = 1, !.cap_ran = FALSE,
                                         !.fwd_raised = FALSE, !.rec_raised = FALSE]
            ELSE /\ pc' = "cap_stop"
                 /\ last_capture_time' = now
                 /\ hist' = [hist EXCEPT !.seen = hist.sets, !.sets = 0, !.absorbed = 0,
                                         !.step_calls = 1, !.cap_ran = TRUE,
                                         !.transitions = @ + 1,
                                         !.prev_capture = last_capture_time,
                                         !.pre_buffers = buffer_count,
                                         !.fwd_raised = FALSE, !.rec_raised = FALSE]
       ELSE /\ pc' = NextStep("flag")
            /\ UNCHANGED last_capture_time
            /\ hist' = [hist EXCEPT !.seen = 0, !.sets = 0, !.absorbed = 0,
                                    !.step_calls = 0]
    /\ UNCHANGED <<ticks, now, camVars, capture_pending, standby_mode,
                   saved_brightness, remoteVars, settingsVars, uiVars,
                   inputVars, threadVars, callers, env, shm, syncVars>>

\* screen flash, sleep(0.1), camera.stop()
CapStop ==
    BackendCall("cap_stop", "cap_cfg", "rec_stop",
                FALSE, camera_config, buffer_count, CAPTURE_FLASH_SLEEP, FALSE)
\* camera.configure(still_config)
CapConfigure ==
    BackendCall("cap_cfg", "cap_start", "rec_stop",
                camera_started, "still", STILL_BUFFER_DEFAULT, 0, TRUE)
\* camera.start()
CapStart ==
    BackendCall("cap_start", "cap_apply", "rec_stop",
                TRUE, camera_config, buffer_count, 0, FALSE)
\* apply_camera_settings()
CapApply ==
    BackendCall("cap_apply", "cap_file", "rec_stop",
                camera_started, camera_config, buffer_count, 0, FALSE)
\* sleep(0.3), camera.capture_file(filename)
CapFile ==
    BackendCall("cap_file", "res_stop", "rec_stop",
                camera_started, camera_config, buffer_count,
                CAPTURE_SETTLE_SLEEP, FALSE)
\* restore preview: stop, configure(buffer_count=2), start
ResStop ==
    BackendCall("res_stop", "res_cfg", "rec_stop",
                FALSE, camera_config, buffer_count, 0, FALSE)
ResConfigure ==
    BackendCall("res_cfg", "res_start", "rec_stop",
                camera_started, "preview", PREVIEW_BUFFER_RESTORE, 0, TRUE)
ResStart ==
    BackendCall("res_start", "clear", "rec_stop",
                TRUE, camera_config, buffer_count, 0, FALSE)
\* except block: stop, configure(buffer_count=2), start, `except: pass`
RecStop ==
    BackendCall("rec_stop", "rec_cfg", "clear",
                FALSE, camera_config, buffer_count, 0, FALSE)
\* mutant: the except block restarts without reconfiguring for preview
RecConfigure_skipped ==
    BackendCall("rec_cfg", "rec_start", "clear",
                camera_started, camera_config, buffer_count, 0, FALSE)
RecConfigure ==
    BackendCall("rec_cfg", "rec_start", "clear",
                camera_started, "preview", PREVIEW_BUFFER_RESTORE, 0, TRUE)
RecStart ==
    BackendCall("rec_start", "clear", "clear",
                TRUE, camera_config, buffer_count, 0, FALSE)

\* mutant: the flag is left set after the capture
CapClear_keeps ==
    /\ pc = "clear"
    /\ pc' = "touch"
    /\ UNCHANGED <<ticks, now, camVars, capture_pending, last_capture_time,
                   standby_mode, saved_brightness, remoteVars, settingsVars,
                   uiVars, inputVars, threadVars, callers, env, shm, syncVars, hist>>

\* mutant: a trigger rejected by the debounce test stays pending
CapClear_deferring ==
    /\ pc = "clear"
    /\ capture_pending' = ~hist.cap_ran
    /\ pc' = NextStep("flag")
    /\ hist' = [hist EXCEPT !.sets = 0, !.absorbed = hist.sets]
    /\ UNCHANGED <<ticks, now, camVars, last_capture_time, standby_mode,
                   saved_brightness, remoteVars, settingsVars, uiVars,
                   inputVars, threadVars, callers, env, shm, syncVars>>

\* mutant: a trigger that came during the capture keeps the flag set
CapClear_rearmed ==
    /\ pc = "clear"
    /\ capture_pending' = (hist.sets > 0)
    /\ pc' = NextStep("flag")
    /\ hist' = [hist EXCEPT !.sets = 0, !.absorbed = hist.sets]
    /\ UNCHANGED <<ticks, now, camVars, last_capture_time, standby_mode,
                   saved_brightness, remoteVars, settingsVars, uiVars,
                   inputVars, threadVars, callers, env, shm, syncVars>>

\* run(): `self.capture_pending = False` after capture_photo has returned
CapClear ==
    /\ pc = "clear"
    /\ capture_pending' = FALSE
    /\ pc' = NextStep("flag")
    /\ hist' = [hist EXCEPT !.sets = 0, !.absorbed = hist.sets]
    /\ UNCHANGED <<ticks, now, camVars, last_capture_time, standby_mode,
                   saved_brightness, remoteVars, settingsVars, uiVars,
                   inputVars, threadVars, callers, env, shm, syncVars>>

\* ------------------------------------------------------- standby controller
NDirectives == Len(PowerDownDirectives)

\* enter_standby: standby_mode is set first; then, inside one try block,
\* camera.stop() and the power-down directives in order.  `at` = 0 is
\* camera.stop(), 1..6 the directive; kind "exit" is a command that ends
\* with a non-zero status (check=False: no exception), kind "raise" a call
\* that raises, which ends the try block.
enter_standby ==
    /\ standby_mode' = TRUE
    /\ callers' = callers \cup {"main"}
    /\ \E kind \in {"ok", "exit", "raise"}, at \in 0..NDirectives :
          /\ kind = "ok" => at = 0
          /\ kind = "exit" => at >= 1
          /\ MayRaise(kind # "ok")
          /\ UNCHANGED <<shm, syncVars>>
          /\ env' = Spend(env, kind # "ok")
          /\ camera_started' = IF kind = "raise" /\ at = 0
                               THEN camera_started ELSE FALSE
          /\ hist' = [hist EXCEPT !.standby_log =
                [entered |-> TRUE,
                 issued |-> IF kind = "raise"
                            THEN SubSeq(PowerDownDirectives, 1, at)
                            ELSE PowerDownDirectives,
                 failed |-> IF kind = "ok" THEN 0 ELSE at,
                 stopped |-> ~(kind = "raise" /\ at = 0)]]
    /\ UNCHANGED <<camera_config, controls, buffer_count, now>>

\* mutant: the except block does not clear standby_mode
wake_from_standby_stuck ==
    IF ~standby_mode
    THEN UNCHANGED <<standby_mode, saved_brightness, camVars, now, env, shm, syncVars,
                     callers, hist>>
    ELSE /\ saved_brightness' = "None"
         /\ callers' = callers \cup {"main"}
         /\ \E raised \in {"none", "directive", "configure", "start"},
               fallback_raises \in BOOLEAN :
               LET refused == raised = "configure" /\ camera_started
                   failures == (IF raised = "none" \/ refused THEN 0 ELSE 1)
                               + (IF fallback_raises THEN 1 ELSE 0)
                   configured == raised \in {"none", "start"}
                   calls_configure == raised # "directive"
               IN  /\ failures <= env.faults
                   /\ standby_mode' = (raised # "none")
                   /\ fallback_raises => raised # "none"
                   /\ UNCHANGED <<shm, syncVars>>
                   /\ env' = [env EXCEPT !.faults = @ - failures]
                   /\ now' = now + (IF raised = "directive" THEN 0
                                    ELSE WAKE_HDMI_SLEEP)
                   /\ UNCHANGED controls
                   /\ camera_config' = IF configured THEN "preview"
                                       ELSE camera_config
                   /\ buffer_count' = IF configured THEN PREVIEW_BUFFER_INIT
                                      ELSE buffer_count
                   /\ camera_started' =
                         IF raised = "none" THEN TRUE
                         ELSE IF fallback_raises THEN camera_started
                         ELSE TRUE
                   /\ hist' = [hist EXCEPT
                         !.bad_configure = @ \/ (calls_configure /\ camera_started),
                         !.reapply = IF raised = "none" THEN Restarted(@)
                                     ELSE @,
                         !.wake_log = [woke |-> TRUE, this_tick |-> TRUE,
                                       raised |-> raised # "none",
                                       fallback |-> IF raised = "none"
                                                    THEN 0 ELSE 1]]


\* mutant: the guard is inverted, a wake in standby returns at once
wake_from_standby_inverted ==
    IF standby_mode
    THEN UNCHANGED <<standby_mode, saved_brightness, camVars, now, env, shm, syncVars,
                     callers, hist>>
    ELSE /\ standby_mode' = FALSE
         /\ saved_brightness' = "None"
         /\ callers' = callers \cup {"main"}
         /\ \E raised \in {"none", "directive", "configure", "start"},
               fallback_raises \in BOOLEAN :
               LET refused == raised = "configure" /\ camera_started
                   failures == (IF raised = "none" \/ refused THEN 0 ELSE 1)
                               + (IF fallback_raises THEN 1 ELSE 0)
                   configured == raised \in {"none", "start"}
                   calls_configure == raised # "directive"
               IN  /\ failures <= env.faults
                   /\ fallback_raises => raised # "none"
                   /\ UNCHANGED <<shm, syncVars>>
                   /\ env' = [env EXCEPT !.faults = @ - failures]
                   /\ now' = now + (IF raised = "directive" THEN 0
                                    ELSE WAKE_HDMI_SLEEP)
                   /\ UNCHANGED controls
                   /\ camera_config' = IF configured THEN "preview"
                                       ELSE camera_config
                   /\ buffer_count' = IF configured THEN PREVIEW_BUFFER_INIT
                                      ELSE buffer_count
                   /\ camera_started' =
                         IF raised = "none" THEN TRUE
                         ELSE IF fallback_raises THEN camera_started
                         ELSE TRUE
                   /\ hist' = [hist EXCEPT
                         !.bad_configure = @ \/ (calls_configure /\ camera_started),
                         !.reapply = IF raised = "none" THEN Restarted(@)
                                     ELSE @,
                         !.wake_log = [woke |-> TRUE, this_tick |-> TRUE,
                                       raised |-> raised # "none",
                                       fallback |-> IF raised = "none"
                                                    THEN 0 ELSE 1]]


\* mutant: no test of standby_mode at the head of the function
wake_from_standby_unguarded ==
    /\ standby_mode' = FALSE
    /\ saved_brightness' = "None"
    /\ callers' = callers \cup {"main"}
    /\ \E raised \in {"none", "directive", "configure", "start"},
          fallback_raises \in BOOLEAN :
          LET refused == raised = "configure" /\ camera_started
              failures == (IF raised = "none" \/ refused THEN 0 ELSE 1)
                          + (IF fallback_raises THEN 1 ELSE 0)
              configured == raised \in {"none", "start"}
              calls_configure == raised # "directive"
          IN  /\ failures <= env.faults
              /\ fallback_raises => raised # "none"
              /\ UNCHANGED <<shm, syncVars>>
              /\ env' = [env EXCEPT !.faults = @ - failures]
              /\ now' = now + (IF raised = "directive" THEN 0
                               ELSE WAKE_HDMI_SLEEP)
              /\ UNCHANGED controls
              /\ camera_config' = IF configured THEN "preview"
                                  ELSE camera_config
              /\ buffer_count' = IF configured THEN PREVIEW_BUFFER_INIT
                                 ELSE buffer_count
              /\ camera_started' =
                    IF raised = "none" THEN TRUE
                    ELSE IF fallback_raises THEN camera_started
                    ELSE TRUE
              /\ hist' = [hist EXCEPT
                    !.bad_configure = @ \/ (calls_configure /\ camera_started),
                    !.reapply = IF raised = "none" THEN Restarted(@)
                                ELSE @,
                    !.wake_log = [woke |-> TRUE, this_tick |-> TRUE,
                                  raised |-> raised # "none",
                                  fallback |-> IF raised = "none"
                                               THEN 0 ELSE 1]]

\* wake_from_standby: the power-up directives, configure for preview
\* (buffer_count=1) and start in one try block; in the except block one
\* bare start(); standby_mode is cleared on both paths.  There is no stop()
\* before the configure: on a backend that is running the configure call may
\* be refused (it raises) whatever else fails.
wake_from_standby ==
    IF ~standby_mode
    THEN UNCHANGED <<standby_mode, saved_brightness, camVars, now, env, shm, syncVars,
                     callers, hist>>
    ELSE /\ standby_mode' = FALSE
         /\ saved_brightness' = "None"
         /\ callers' = callers \cup {"main"}
         /\ \E raised \in {"none", "directive", "configure", "start"},
               fallback_raises \in BOOLEAN :
               LET refused == raised = "configure" /\ camera_started
                   failures == (IF raised = "none" \/ refused THEN 0 ELSE 1)
                               + (IF fallback_raises THEN 1 ELSE 0)
                   configured == raised \in {"none", "start"}
                   calls_configure == raised # "directive"
               IN  /\ failures <= env.faults
                   /\ fallback_raises => raised # "none"
                   /\ UNCHANGED <<shm, syncVars>>
                   /\ env' = [env EXCEPT !.faults = @ - failures]
                   /\ now' = now + (IF raised = "directive" THEN 0
                                    ELSE WAKE_HDMI_SLEEP)
                   /\ UNCHANGED controls
                   /\ camera_config' = IF configured THEN "preview"
                                       ELSE camera_config
                   /\ buffer_count' = IF configured THEN PREVIEW_BUFFER_INIT
                                      ELSE buffer_count
                   /\ camera_started' =
                         IF raised = "none" THEN TRUE
                         ELSE IF fallback_raises THEN camera_started
                         ELSE TRUE
                   /\ hist' = [hist EXCEPT
                         !.bad_configure = @ \/ (calls_configure /\ camera_started),
                         !.reapply = IF raised = "none" THEN Restarted(@)
                                     ELSE @,
                         !.wake_log = [woke |-> TRUE, this_tick |-> TRUE,
                                       raised |-> raised # "none",
                                       fallback |-> IF raised = "none"
                                                    THEN 0 ELSE 1]]

\* ------------------------------------------------------------ handle_touch
\* apply_camera_settings called from position `here` of the main loop: a
\* set_controls that raises is not caught inside; control goes to raise_pc.
\* Out of handle_touch the exception leaves run(), whose finally block runs
\* cleanup() (camera.stop()).
apply_camera_settings(ok_pc, raise_pc) ==
    /\ callers' = callers \cup {"main"}
    /\ \E failing \in 0..NUpdates :
          LET raises == failing # 0
              escapes == raises /\ failing <= NUnguarded
          IN  /\ MayRaise(raises)
              /\ UNCHANGED <<shm, syncVars>>
              /\ env' = Spend(env, raises)
              /\ pc' = IF escapes THEN raise_pc ELSE ok_pc
              /\ camera_started' = IF escapes /\ raise_pc = "exit"
                                   THEN FALSE ELSE camera_started
              /\ controls' = Applied(controls, settingsVars', failing)
    /\ UNCHANGED <<camera_config, buffer_count>>

\* mutants: no wrap-around at the ends of the tables
IsoUp_clamped(i) == IF i = ISO_LEN - 1 THEN i ELSE i + 1
IsoDown_clamped(i) == IF i = 0 THEN 0 ELSE i - 1
\* mutant: the shutter index is decremented without the modulo
ShutterDown_unwrapped(i) == i - 1
\* mutant: the ISO goes up only while a remote session is active
IsoUp_gated(i) == IF remote_active THEN (i + 1) % ISO_LEN ELSE i
IsoUp(i) == (i + 1) % ISO_LEN
IsoDown(i) == (i - 1) % ISO_LEN
ShutterUp(i) == (i + 1) % SHUTTER_LEN
ShutterDown(i) == (i - 1) % SHUTTER_LEN

NoteChange(what, src, before) ==
    hist' = [hist EXCEPT !.last_change =
                [what |-> what, src |-> src, before |-> before],
                         !.reapply = Reapplied(@),
                         !.applied =
                ApplyOutcome(controls, controls', settingsVars')]

SetUI(m, power, wifi) ==
    /\ mode' = m
    /\ show_power_popup' = power
    /\ show_wifi_popup' = wifi

\* a branch of handle_touch that only changes the UI state
OnlyUI(m, power, wifi) ==
    /\ SetUI(m, power, wifi)
    /\ pc' = "touch"
    /\ UNCHANGED <<settingsVars, standby_mode, camVars, scan_threads, env, shm, syncVars,
                   callers, hist>>

\* mutant: a change whose apply_camera_settings raises is taken back
ChangeSettings_rollback(iso, shutter, gray, what, before) ==
    /\ callers' = callers \cup {"main"}
    /\ \E failing \in 0..NUpdates :
          LET raises == failing # 0
              escapes == raises /\ failing <= NUnguarded
          IN  /\ MayRaise(raises)
              /\ UNCHANGED <<shm, syncVars>>
              /\ env' = Spend(env, raises)
              /\ pc' = IF escapes THEN "exit" ELSE "touch"
              /\ camera_started' = IF escapes THEN FALSE ELSE camera_started
              /\ controls' = Applied(controls, <<iso, shutter, gray>>, failing)
              /\ current_iso_index' =
                    IF escapes THEN current_iso_index ELSE iso
              /\ current_shutter_index' =
                    IF escapes THEN current_shutter_index ELSE shutter
              /\ grayscale_mode' = IF escapes THEN grayscale_mode ELSE gray
    /\ UNCHANGED <<camera_config, buffer_count>>
    /\ NoteChange(what, "touch", before)
    /\ UNCHANGED <<uiVars, standby_mode, scan_threads>>

\* A branch of handle_touch that changes a setting: the attribute is
\* assigned first, then apply_camera_settings is called.
ChangeSettings(iso, shutter, gray, what, before) ==
    /\ current_iso_index' = iso
    /\ current_shutter_index' = shutter
    /\ grayscale_mode' = gray
    /\ apply_camera_settings("touch", "exit")
    /\ NoteChange(what, "touch", before)
    /\ UNCHANGED <<uiVars, standby_mode, scan_threads>>

handle_touch(vx, vy) ==
    LET x == WIDTH - vx
        y == HEIGHT - vy
    IN
    IF show_wifi_popup
    THEN IF collidepoint(wifi_back_rect, x, y)
         THEN OnlyUI(mode, TRUE, FALSE)
         ELSE OnlyUI(mode, show_power_popup, show_wifi_popup)
    ELSE IF show_power_popup
    THEN IF collidepoint(popup_shutdown_btn, x, y)
         THEN OnlyUI(mode, show_power_popup, show_wifi_popup)
         ELSE IF collidepoint(popup_standby_btn, x, y)
         THEN /\ (IF standby_mode
                  THEN wake_from_standby
                  ELSE enter_standby /\ UNCHANGED saved_brightness)
              /\ SetUI(mode, FALSE, show_wifi_popup)
              /\ pc' = "touch"
              /\ UNCHANGED <<settingsVars, scan_threads>>
         ELSE IF collidepoint(popup_server_btn, x, y)
         THEN OnlyUI(mode, show_power_popup, show_wifi_popup)
         ELSE IF collidepoint(popup_hotspot_btn, x, y)
         THEN OnlyUI(mode, show_power_popup, show_wifi_popup)
         ELSE IF collidepoint(popup_wifi_btn, x, y)
         THEN /\ SetUI(mode, FALSE, TRUE)
              /\ scan_threads' = scan_threads + 1
              /\ pc' = "touch"
              /\ UNCHANGED <<settingsVars, standby_mode, camVars, env, shm, syncVars,
                             callers, hist>>
         ELSE IF collidepoint(popup_cancel_btn, x, y)
         THEN OnlyUI(mode, FALSE, show_wifi_popup)
         ELSE OnlyUI(mode, show_power_popup, show_wifi_popup)
    ELSE IF mode = "camera"
    THEN IF x < SIDEBAR_WIDTH
         THEN IF collidepoint(shutter_up_rect, x, y)
              THEN ChangeSettings(current_iso_index,
                                  ShutterUp(current_shutter_index),
                                  grayscale_mode, "SHUTTER_UP",
                                  current_shutter_index)
              ELSE IF collidepoint(shutter_down_rect, x, y)
              THEN ChangeSettings(current_iso_index,
                                  ShutterDown(current_shutter_index),
                                  grayscale_mode, "SHUTTER_DOWN",
                                  current_shutter_index)
              ELSE IF collidepoint(iso_up_rect, x, y)
              THEN ChangeSettings(IsoUp(current_iso_index),
                                  current_shutter_index, grayscale_mode,
                                  "ISO_UP", current_iso_index)
              ELSE IF collidepoint(iso_down_rect, x, y)
              THEN ChangeSettings(IsoDown(current_iso_index),
                                  current_shutter_index, grayscale_mode,
                                  "ISO_DOWN", current_iso_index)
              ELSE OnlyUI(mode, show_power_popup, show_wifi_popup)
         ELSE IF x > WIDTH - SIDEBAR_WIDTH
         THEN IF collidepoint(power_rect, x, y)
              THEN OnlyUI(mode, TRUE, show_wifi_popup)
              ELSE IF collidepoint(gallery_rect, x, y)
              THEN OnlyUI("gallery", show_power_popup, show_wifi_popup)
              ELSE IF collidepoint(bw_rect, x, y)
              THEN ChangeSettings(current_iso_index, current_shutter_index,
                                  ~grayscale_mode, "BW",
                                  IF grayscale_mode THEN 1 ELSE 0)
              ELSE OnlyUI(mode, show_power_popup, show_wifi_popup)
         ELSE OnlyUI(mode, show_power_popup, show_wifi_popup)
    ELSE IF collidepoint(back_btn_rect, x, y)
         THEN OnlyUI("camera", show_power_popup, show_wifi_popup)
         ELSE OnlyUI(mode, show_power_popup, show_wifi_popup)

\* ------------------------------------------------------------ the main loop
\* mutant: the click that wakes the device stays at the head of the queue
Dequeued_keeps_wake(q) == IF standby_mode THEN q ELSE Tail(q)
\* touch_queue.get_nowait(): the queue without its oldest entry
Dequeued(q) == Tail(q)

\* run(): one get_nowait() of the touch drain and the dispatch of the click
TouchStep ==
    /\ pc = "touch"
    /\ IF touch_queue = <<>>
       THEN /\ pc' = NextStep("touch")
            /\ UNCHANGED <<now, camVars, standby_mode, saved_brightness,
                           settingsVars, uiVars, inputVars, scan_threads,
                           callers, env, shm, syncVars, hist>>
       ELSE LET click == Head(touch_queue)
            IN  /\ touch_queue' = Dequeued(touch_queue)
                /\ last_input' = [kind |-> "touch", standby |-> standby_mode]
                /\ UNCHANGED sock
                /\ IF standby_mode
                   THEN /\ wake_from_standby
                        /\ pc' = "touch"
                        /\ UNCHANGED <<settingsVars, uiVars, scan_threads>>
                   ELSE IF saved_brightness = "software_black"
                   THEN /\ saved_brightness' = "None"
                        /\ pc' = "touch"
                        /\ UNCHANGED <<now, camVars, standby_mode,
                                       settingsVars, uiVars, scan_threads,
                                       callers, env, shm, syncVars, hist>>
                   ELSE /\ handle_touch(click[1], click[2])
                        /\ UNCHANGED <<now, saved_brightness>>
    /\ UNCHANGED <<ticks, capture_pending, last_capture_time, remoteVars,
                   lazy_pc, touch_thread, reader>>

\* mutant: a heartbeat renews a lease that has expired
HeartbeatSession_resumes(active) == active \/ hist.session = "expired"
\* mutant: a heartbeat revives a session that was stopped or has expired
HeartbeatSession_revives(active) == TRUE
\* udp_check, HEARTBEAT: remote_active is not assigned
HeartbeatSession(active) == active

\* mutant: a token that is not understood ends the session
UnknownSession_stops(active) == FALSE
\* udp_check: the if/elif chain has no else branch
UnknownSession(active) == active

\* History: the datagram udp_check has just handled and the state it found
Logged(h, cmd) ==
    [h EXCEPT !.udp_log =
        [cmd |-> cmd, active |-> remote_active, hb |-> remote_last_heartbeat,
         pending |-> capture_pending, ntrig |-> h.ntrig,
         settings |-> settingsVars, standby |-> standby_mode,
         cam |-> camVars, at |-> now, left |-> Len(sock) - 1,
         transitions |-> h.transitions,
         batch |-> IF h.udp_log.cmd = "none" THEN Len(sock)
                   ELSE h.udp_log.batch,
         n |-> IF h.udp_log.cmd = "none" THEN 1 ELSE h.udp_log.n + 1],
              !.capture_cmd_tick = IF cmd = "CAPTURE" THEN ticks ELSE @]

Changed(h, what, src, before) ==
    [h EXCEPT !.last_change = [what |-> what, src |-> src, before |-> before],
              !.reapply = Reapplied(@),
              !.applied = ApplyOutcome(controls, controls', settingsVars')]

\* udp_check: one recvfrom() of the drain loop and the handling of the command
UdpStep ==
    /\ pc = "udp"
    /\ IF sock = <<>>
       THEN /\ pc' = NextStep("udp")
            /\ UNCHANGED <<camVars, capture_pending, remoteVars, settingsVars,
                           inputVars, callers, env, shm, syncVars, hist>>
       ELSE LET cmd == Head(sock)
                quiet == UNCHANGED <<camVars, callers, env, shm, syncVars>>
            IN  /\ sock' = Tail(sock)
                /\ last_input' = [kind |-> "udp", standby |-> standby_mode]
                /\ UNCHANGED touch_queue
                /\ CASE cmd = "START_REMOTE" ->
                          /\ remote_active' = TRUE
                          /\ remote_last_heartbeat' = now
                          /\ pc' = "udp" /\ quiet
                          /\ hist' = [Logged(hist, cmd) EXCEPT
                                         !.session = "started"]
                          /\ UNCHANGED <<capture_pending, settingsVars>>
                     [] cmd = "STOP_REMOTE" ->
                          /\ remote_active' = FALSE
                          /\ pc' = "udp" /\ quiet
                          /\ hist' = [Logged(hist, cmd) EXCEPT !.session =
                                         IF remote_active THEN "stopped" ELSE @]
                          /\ UNCHANGED <<remote_last_heartbeat, capture_pending,
                                         settingsVars>>
                     [] cmd = "HEARTBEAT" ->
                          /\ remote_last_heartbeat' = now
                          /\ remote_active' = HeartbeatSession(remote_active)
                          /\ pc' = "udp" /\ quiet
                          /\ hist' = Logged(hist, cmd)
                          /\ UNCHANGED <<capture_pending, settingsVars>>
                     [] cmd = "CAPTURE" ->
                          /\ trigger_capture("main")
                          /\ hist' = NoteTrigger(Logged(hist, cmd))
                          /\ pc' = "udp"
                          /\ UNCHANGED <<remoteVars, settingsVars, env, shm, syncVars>>
                     [] cmd = "ISO_UP" ->
                          /\ current_iso_index' = IsoUp(current_iso_index)
                          /\ UNCHANGED <<current_shutter_index, grayscale_mode,
                                         capture_pending, remoteVars>>
                          /\ apply_camera_settings("udp", NextStep("udp"))
                          /\ hist' = Logged(Changed(hist, cmd, "udp",
                                                    current_iso_index), cmd)
                     [] cmd = "ISO_DOWN" ->
                          /\ current_iso_index' = IsoDown(current_iso_index)
                          /\ UNCHANGED <<current_shutter_index, grayscale_mode,
                                         capture_pending, remoteVars>>
                          /\ apply_camera_settings("udp", NextStep("udp"))
                          /\ hist' = Logged(Changed(hist, cmd, "udp",
                                                    current_iso_index), cmd)
                     [] cmd = "SHUTTER_UP" ->
                          /\ current_shutter_index' = ShutterUp(current_shutter_index)
                          /\ UNCHANGED <<current_iso_index, grayscale_mode,
                                         capture_pending, remoteVars>>
                          /\ apply_camera_settings("udp", NextStep("udp"))
                          /\ hist' = Logged(Changed(hist, cmd, "udp",
                                                    current_shutter_index), cmd)
                     [] cmd = "SHUTTER_DOWN" ->
                          /\ current_shutter_index' = ShutterDown(current_shutter_index)
                          /\ UNCHANGED <<current_iso_index, grayscale_mode,
                                         capture_pending, remoteVars>>
                          /\ apply_camera_settings("udp", NextStep("udp"))
                          /\ hist' = Logged(Changed(hist, cmd, "udp",
                                                    current_shutter_index), cmd)
                     [] cmd = "\\xff" ->
                          \* data.decode raises: `except Exception: break`
                          /\ pc' = NextStep("udp") /\ quiet
                          /\ hist' = Logged(hist, cmd)
                          /\ UNCHANGED <<capture_pending, remoteVars,
                                         settingsVars>>
                     [] OTHER ->
                          /\ remote_active' = UnknownSession(remote_active)
                          /\ pc' = "udp" /\ quiet
                          /\ hist' = Logged(hist, cmd)
                          /\ UNCHANGED <<capture_pending, remote_last_heartbeat,
                                         settingsVars>>
    /\ UNCHANGED <<ticks, now, last_capture_time, standby_mode,
                   saved_brightness, uiVars, threadVars>>

\* mutant: the preview is updated in Standby too
UpdatesPreview_always == TRUE
\* run(): update_preview() is called in this tick
UpdatesPreview ==
    IF saved_brightness = "software_black" \/ standby_mode
    THEN ~standby_mode
    ELSE mode = "camera"

\* update_preview: `if current_time - self.last_preview_time < 0.05: return`
\* (times are in units of 0.1 s)
PreviewThrottled(t) == 2 * (t - last_preview_time) < 1

\* mutant: the copy to /tmp is made for every frame
ShmSyncDue_always(t) == TRUE
\* update_preview: `if current_t - self.last_shm_sync > 0.2`
ShmSyncDue(t) == t - last_shm_sync > SHM_SYNC_INTERVAL

\* history of the publisher: the number of publishes started, the start
\* times of the last two, the paths replaced by the last one
Publishing(h) ==
    [h EXCEPT !.pub = [n |-> @.n + 1, prev |-> @.last, last |-> now,
                       wrote |-> <<>>, done |-> FALSE,
                       tick |-> ticks, standby |-> standby_mode]]

\* run(): the screen-off/standby test, the heartbeat lease check and the
\* preview update; `got`: capture_array returned a frame
PreviewStep ==
    /\ pc = "preview"
    /\ LET expires == ~(saved_brightness = "software_black" \/ standby_mode)
                      /\ HeartbeatExpired(now)
           checked == [hist EXCEPT
                          !.reapply = IF UpdatesPreview /\ ~PreviewThrottled(now)
                                      THEN FrameAsked(@) ELSE @,
                          !.expired = @ \/ (expires /\ remote_active),
                          !.session = IF expires /\ remote_active
                                      THEN "expired" ELSE @]
       IN  /\ remote_active' = IF expires THEN FALSE ELSE remote_active
           /\ callers' = IF UpdatesPreview THEN callers \cup {"main"}
                         ELSE callers
           /\ IF UpdatesPreview /\ ~PreviewThrottled(now)
              THEN /\ last_preview_time' = now
                   /\ \E got \in BOOLEAN :
                         /\ got => env.publishes > 0
                         /\ IF got /\ ShmSyncDue(now)
                            THEN /\ last_shm_sync' = now
                                 /\ pc' = "shm_open"
                                 /\ hist' = Publishing(checked)
                            ELSE /\ UNCHANGED last_shm_sync
                                 /\ pc' = NextStep("preview")
                                 /\ hist' = checked
              ELSE /\ UNCHANGED syncVars
                   /\ pc' = NextStep("preview")
                   /\ hist' = checked
    /\ UNCHANGED <<ticks, now, camVars, capture_pending, last_capture_time,
                   standby_mode, saved_brightness, remote_last_heartbeat,
                   settingsVars, uiVars, inputVars, threadVars, env, shm>>

\* ---------------------------------------- update_preview: the copy to /tmp
\* what a file that is not the status file holds of the status
NoStatus == [iso |-> "", shutter |-> "", mode |-> "", status |-> ""]
\* mutant: the status always reports a local session
StatusSnapshot_local ==
    [iso |-> Item(ISO_VALUES, current_iso_index),
     shutter |-> Item(SHUTTER_LABELS, current_shutter_index),
     mode |-> "local",
     status |-> "active"]
\* update_preview: the `status` dict
StatusSnapshot ==
    [iso |-> Item(ISO_VALUES, current_iso_index),
     shutter |-> Item(SHUTTER_LABELS, current_shutter_index),
     mode |-> IF remote_active THEN "remote" ELSE "local",
     status |-> "active"]

shmFrame == <<ticks, now, camVars, capture_pending, last_capture_time,
              standby_mode, saved_brightness, remoteVars, settingsVars,
              uiVars, inputVars, threadVars, callers, syncVars>>

\* img.save(temp_path, ...) / open(temp_status, 'w'): the file is created,
\* or truncated when a failed copy has left it behind
ShmOpen ==
    /\ pc = "shm_open"
    /\ \E raises \in BOOLEAN :
          /\ MayRaise(raises)
          /\ env' = [Spend(env, raises) EXCEPT !.publishes =
                        IF shm.wpath = SHARED_MEM_PREVIEW THEN @ - 1 ELSE @]
          /\ IF raises
             THEN /\ pc' = "tick_end"
                  /\ shm' = [shm EXCEPT !.wpath = SHARED_MEM_PREVIEW]
             ELSE LET tmp == TempPath(shm.wpath)
                      v == shm.ver + 1
                      old == shm.dir[tmp]
                      fd == IF old = 0 THEN Len(shm.inodes) + 1 ELSE old
                      blank == [ver |-> v, len |-> 0,
                                status |-> IF shm.wpath = SHARED_MEM_STATUS
                                           THEN StatusSnapshot ELSE NoStatus]
                  IN  /\ pc' = "shm_write"
                      /\ shm' = [shm EXCEPT
                            !.ver = v,
                            !.wfd = fd,
                            !.dir[tmp] = fd,
                            !.inodes = IF old = 0 THEN Append(@, blank)
                                       ELSE [@ EXCEPT ![old] = blank]]
    /\ UNCHANGED <<shmFrame, hist>>

\* one write() of the encoder / of json.dump; close() after the last one
ShmWrite ==
    /\ pc = "shm_write"
    /\ \E raises \in BOOLEAN :
          /\ MayRaise(raises)
          /\ env' = Spend(env, raises)
          /\ IF raises
             THEN /\ pc' = "tick_end"
                  /\ shm' = [shm EXCEPT !.wfd = 0,
                                        !.wpath = SHARED_MEM_PREVIEW]
             ELSE /\ shm' = [shm EXCEPT !.inodes[shm.wfd].len = @ + 1]
                  /\ pc' = IF shm.inodes[shm.wfd].len + 1 = Chunks
                           THEN "shm_replace" ELSE "shm_write"
    /\ UNCHANGED <<shmFrame, hist>>

\* os.replace(temp, path): the path names the inode of temp from now on;
\* after the preview file comes the status file
ShmReplace ==
    /\ pc = "shm_replace"
    /\ LET tmp == TempPath(shm.wpath)
           renamed == [shm.dir EXCEPT ![tmp] = 0, ![shm.wpath] = shm.dir[tmp]]
       IN  IF shm.wpath = SHARED_MEM_PREVIEW
           THEN /\ shm' = [shm EXCEPT !.dir = renamed, !.wfd = 0,
                                      !.wpath = SHARED_MEM_STATUS]
                /\ pc' = "shm_open"
           ELSE /\ shm' = [shm EXCEPT !.dir = renamed, !.wfd = 0,
                                      !.wpath = SHARED_MEM_PREVIEW]
                /\ pc' = "tick_end"
    /\ hist' = [hist EXCEPT !.pub.wrote = Append(@, shm.wpath),
                            !.pub.done = shm.wpath = SHARED_MEM_STATUS]
    /\ UNCHANGED <<shmFrame, env>>

\* photo_server.py, serve_status / serve_preview / serve_mjpeg_stream:
\* os.path.exists(path) and open(path)
ServerOpen ==
    /\ Alive
    /\ shm.rfd = 0
    /\ env.reads > 0
    /\ \E path \in {SHARED_MEM_PREVIEW, SHARED_MEM_STATUS} :
          /\ shm.dir[path] # 0
          /\ shm' = [shm EXCEPT !.rfd = shm.dir[path],
                                !.rbase = shm.inodes[shm.dir[path]].ver,
                                !.rgot = <<>>, !.rdone = FALSE]
    /\ env' = [env EXCEPT !.reads = @ - 1]
    /\ UNCHANGED <<pc, shmFrame, hist>>

\* f.read(): the next block of the open file, or the end of the file
ServerRead ==
    /\ Alive
    /\ shm.rfd # 0
    /\ LET file == shm.inodes[shm.rfd]
       IN  IF Len(shm.rgot) < file.len
           THEN shm' = [shm EXCEPT !.rgot = Append(@, file.ver)]
           ELSE shm' = [shm EXCEPT !.rfd = 0, !.rdone = TRUE]
    /\ UNCHANGED <<pc, shmFrame, env, hist>>

\* run(): pygame.display.flip(), clock.tick(30), back to the loop head
TickEnd ==
    /\ pc = "tick_end"
    /\ ticks < MaxTicks + env.more_ticks
    /\ ticks' = ticks + 1
    /\ pc' = NextStep("tick_end")
    /\ \E d \in env.durations : now' = now + d
    /\ hist' = [hist EXCEPT !.udp_log = NoLog, !.wake_log.this_tick = FALSE]
    /\ UNCHANGED <<camVars, capture_pending, last_capture_time, standby_mode,
                   saved_brightness, remoteVars, settingsVars, uiVars,
                   inputVars, threadVars, callers, env, shm, syncVars>>

MainLoop ==
    \/ LoopTop
    \/ CapStop
    \/ CapConfigure
    \/ CapStart
    \/ CapApply
    \/ CapFile
    \/ ResStop
    \/ ResConfigure
    \/ ResStart
    \/ RecStop
    \/ RecConfigure
    \/ RecStart
    \/ CapClear
    \/ TouchStep
    \/ UdpStep
    \/ PreviewStep
    \/ TickEnd

Next ==
    \/ GpioPress
    \/ LazyInit
    \/ TouchGesture
    \/ TouchReaderError
    \/ ScanWifi
    \/ DatagramArrives
    \/ MainLoop

Spec == Init /\ [][Next]_vars

NextCapture ==
    \/ GpioPress
    \/ DatagramArrives
    \/ MainLoop

SpecCapture == InitCapture /\ [][NextCapture]_vars

NextPower ==
    \/ GpioPress
    \/ LazyInit
    \/ TouchGesture
    \/ DatagramArrives
    \/ MainLoop

SpecPower == InitPower /\ [][NextPower]_vars

\* No capture trigger occurs: the loop never enters capture_photo.
NextSettings ==
    \/ LazyInit
    \/ TouchGesture
    \/ DatagramArrives
    \/ LoopTop
    \/ TouchStep
    \/ UdpStep
    \/ PreviewStep
    \/ TickEnd

SpecSettings == InitSettings /\ [][NextSettings]_vars
SpecControls == InitControls /\ [][NextSettings]_vars

\* The remote channel alone: every kind of datagram, the lease timeout.
InitRemote ==
    Start([faults |-> 1, touches |-> 0, datagrams |-> MaxDatagrams,
           presses |-> 0,
           points |-> {},
           tokens |-> Datagrams,
           durations |-> {1, HEARTBEAT_TIMEOUT + 1}])

NextRemote ==
    \/ DatagramArrives
    \/ MainLoop

SpecRemote == InitRemote /\ [][NextRemote]_vars

\* The session commands over one more iteration: a session can start, lose
\* its lease at a preview step and hear from its client again.
InitLease ==
    Start([faults |-> 0, touches |-> 0, datagrams |-> MaxDatagrams + 1,
           presses |-> 0,
           points |-> {},
           tokens |-> {"START_REMOTE", "STOP_REMOTE", "HEARTBEAT"},
           durations |-> {1, HEARTBEAT_TIMEOUT + 1},
           more_ticks |-> 1])

NextLease ==
    \/ DatagramArrives
    \/ LoopTop
    \/ TouchStep
    \/ UdpStep
    \/ PreviewStep
    \/ TickEnd

SpecLease == InitLease /\ [][NextLease]_vars

\* The copies of the preview frame and of the status to /tmp, read by the
\* photo server while they are made.
InitShm ==
    Start([faults |-> MaxFaults - 1, touches |-> 0, datagrams |-> 0,
           presses |-> 0,
           points |-> {},
           tokens |-> {},
           durations |-> {SHM_SYNC_INTERVAL + 1},
           publishes |-> MaxPublishes, reads |-> MaxReads])

NextShm ==
    \/ LoopTop
    \/ TouchStep
    \/ UdpStep
    \/ PreviewStep
    \/ ShmOpen
    \/ ShmWrite
    \/ ShmReplace
    \/ TickEnd
    \/ ServerOpen
    \/ ServerRead

SpecShm == InitShm /\ [][NextShm]_vars

\* The publisher beside the remote channel: short and long ticks, a
\* session that starts and whose lease expires.
InitPublish ==
    Start([faults |-> MaxFaults - 1, touches |-> 0,
           datagrams |-> MaxDatagrams - 1, presses |-> 0,
           points |-> {},
           tokens |-> {"START_REMOTE", "SHUTTER_DOWN"},
           durations |-> {1, SHM_SYNC_INTERVAL + 1, HEARTBEAT_TIMEOUT + 1},
           publishes |-> MaxPublishes])

NextPublish ==
    \/ DatagramArrives
    \/ LoopTop
    \/ TouchStep
    \/ UdpStep
    \/ PreviewStep
    \/ ShmOpen
    \/ ShmWrite
    \/ ShmReplace
    \/ TickEnd

SpecPublish == InitPublish /\ [][NextPublish]_vars

\* Every setting of the three flags of touch_cal
Calibrations ==
    { [touch_cal EXCEPT !.swap_xy = s, !.invert_x = ix, !.invert_y = iy] :
        s \in BOOLEAN, ix \in BOOLEAN, iy \in BOOLEAN }

\* Raw points inside the calibration bounds of cal: the four corners of the
\* bounds and a point in the middle (ABS_X, ABS_Y as the panel reports them)
CornerPoints(cal) ==
    LET pts == ({cal.x_min, cal.x_max} \X {cal.y_min, cal.y_max})
               \cup {<<2050, 2100>>}
    IN  IF cal.swap_xy THEN {<<p[2], p[1]>> : p \in pts} ELSE pts

\* The touch reader with every calibration, on the corners of the bounds.
InitCalibrate ==
    \E c \in Calibrations :
        Start([faults |-> 0, touches |-> MaxTouches - 1, datagrams |-> 0,
               presses |-> 0,
               points |-> CornerPoints(c),
               tokens |-> {},
               durations |-> {1},
               cal |-> c])

NextCalibrate ==
    \/ LazyInit
    \/ TouchGesture
    \/ LoopTop
    \/ TouchStep
    \/ UdpStep
    \/ PreviewStep
    \/ TickEnd

SpecCalibrate == InitCalibrate /\ [][NextCalibrate]_vars

\* The touch reader event by event, beside the main loop.
InitTouch ==
    Start([faults |-> 1, touches |-> 0, datagrams |-> 0, presses |-> 0,
           points |-> {RAW_POWER, <<2050, 2100>>},
           tokens |-> {},
           durations |-> {1},
           events |-> MaxEvents])

NextTouch ==
    \/ LazyInit
    \/ TouchEvent
    \/ TouchReaderError
    \/ LoopTop
    \/ TouchStep
    \/ UdpStep
    \/ PreviewStep
    \/ TickEnd

SpecTouch == InitTouch /\ [][NextTouch]_vars

\* Whole ticks: a touch on an arrow, CAPTURE and setting commands, a
\* capture and a publish.
InitTick ==
    Start([faults |-> 1, touches |-> MaxTouches - 2,
           datagrams |-> MaxDatagrams, presses |-> 0,
           points |-> {RAW_ISO_UP},
           tokens |-> {"CAPTURE", "SHUTTER_DOWN"},
           durations |-> {SHM_SYNC_INTERVAL + 1},
           publishes |-> MaxPublishes])

NextTick ==
    \/ LazyInit
    \/ TouchGesture
    \/ DatagramArrives
    \/ MainLoop
    \/ ShmOpen
    \/ ShmWrite
    \/ ShmReplace

SpecTick == InitTick /\ [][NextTick]_vars

\* Standby beside the publisher: the power button and the Standby entry
\* of its popup, a touch to wake.
InitStandby ==
    Start([faults |-> 1, touches |-> MaxTouches, datagrams |-> 0,
           presses |-> 0,
           points |-> {RAW_POWER},
           tokens |-> {},
           durations |-> {SHM_SYNC_INTERVAL + 1},
           publishes |-> MaxPublishes])

NextStandby ==
    \/ LazyInit
    \/ TouchGesture
    \/ LoopTop
    \/ TouchStep
    \/ UdpStep
    \/ PreviewStep
    \/ ShmOpen
    \/ ShmWrite
    \/ ShmReplace
    \/ TickEnd

SpecStandby == InitStandby /\ [][NextStandby]_vars

\* Touches enough to open the power popup, enter Standby, wake, and go on.
InitWake ==
    Start([faults |-> 1, touches |-> MaxTouches + 1, datagrams |-> 0,
           presses |-> 0,
           points |-> {RAW_POWER},
           tokens |-> {},
           durations |-> {1}])

NextWake ==
    \/ LazyInit
    \/ TouchGesture
    \/ LoopTop
    \/ TouchStep
    \/ UdpStep
    \/ PreviewStep
    \/ TickEnd

SpecWake == InitWake /\ [][NextWake]_vars

\* wake_from_standby invoked by the main thread while the device is Active.
\* (Every call site of the program tests standby_mode first; this is a
\* direct call of the method, for the test at its head.)
WakeCall ==
    /\ pc = "touch"
    /\ ~standby_mode
    /\ wake_from_standby
    /\ last_input' = [kind |-> "call", standby |-> standby_mode]
    /\ UNCHANGED <<pc, ticks, capture_pending, last_capture_time, remoteVars,
                   settingsVars, uiVars, touch_queue, sock, threadVars>>

NextWakeCall ==
    \/ LazyInit
    \/ TouchGesture
    \/ WakeCall
    \/ LoopTop
    \/ TouchStep
    \/ UdpStep
    \/ PreviewStep
    \/ TickEnd

SpecWakeCall == InitWake /\ [][NextWakeCall]_vars

\* ================================================================== claims
CapturePcs == {"cap_stop", "cap_cfg", "cap_start", "cap_apply", "cap_file",
               "res_stop", "res_cfg", "res_start",
               "rec_stop", "rec_cfg", "rec_start"}

\* C1: in every interleaving of the main loop with the GPIO callback, the
\* touch reader, the background init thread and the WiFi-scan thread, the
\* Capture Backend and Power Controller operations are invoked by the
\* main-loop thread only (so never two at a time).
C1_MainLoopOnly == callers \subseteq {"main"}
\* the main loop is inside a capture while the other threads have run
C1_Witness ==
    /\ pc \in CapturePcs
    /\ hist.ntrig >= 1
    /\ lazy_pc = "done"
    /\ touch_thread = "running"
    /\ scan_threads >= 1

C3_ConfigureOnlyWhenStopped == ~hist.bad_configure

\* C4: any number (one or more) of button presses and CAPTURE commands that
\* set the flag before the main loop looks at it result in exactly one call
\* of capture_photo, and the flag is false once the loop has acted on it: it
\* is set only if a trigger came after the loop last read or cleared it, or
\* while the capture it started is still running.
C4_Coalescing ==
    /\ (pc \in CapturePcs \cup {"clear"}) =>
          (hist.step_calls = 1 /\ hist.seen >= 1)
    /\ (pc \in {"touch", "udp", "preview", "tick_end"} /\ hist.sets = 0) =>
          ~capture_pending
    /\ hist.transitions <= ticks + 1
\* two triggers were coalesced into the one capture that has just returned
C4_Witness ==
    /\ pc = "clear" /\ hist.seen >= 2 /\ hist.step_calls = 1
    /\ hist.transitions = 1

\* C5: two capture triggers less than BUTTON_DEBOUNCE apart cause exactly
\* one still-capture transition, wherever they fall relative to the ticks.
C5_OneTransitionPerWindow ==
    ( /\ hist.ntrig = 2
      /\ hist.last_trig - hist.first_trig < BUTTON_DEBOUNCE
      /\ ~capture_pending
      /\ pc \notin CapturePcs \cup {"clear"} ) =>
        hist.transitions = 1

\* C6 (as claimed): at a tick at which the heartbeat age exceeds the
\* timeout the session is inactive after the tick, whatever happened in
\* between (touches, standby, UI mode changes).
C6_LeaseExpiresAtTick ==
    (pc = "tick_end" /\ now - remote_last_heartbeat > HEARTBEAT_TIMEOUT) =>
        ~remote_active
\* C6 (amended): at a tick at which the heartbeat age exceeds the timeout
\* and PowerState is Active (and the screen is not switched off), the
\* session is inactive after the tick; in Standby the lease check is
\* skipped and the session keeps its state until a tick after the wake.
C6_LeaseExpiresAtActiveTick ==
    ( /\ pc = "tick_end"
      /\ ~standby_mode /\ saved_brightness # "software_black"
      /\ now - remote_last_heartbeat > HEARTBEAT_TIMEOUT ) =>
        ~remote_active
\* the lease check of this tick has deactivated a session that was active
C6_Witness ==
    /\ pc = "tick_end" /\ ~standby_mode
    /\ hist.expired /\ ~remote_active
    /\ remote_last_heartbeat >= StartTime
    /\ now - remote_last_heartbeat > HEARTBEAT_TIMEOUT

\* C7: wake_from_standby called in Standby returns with PowerState Active,
\* also when a directive, configure or start raises; in that case it makes
\* exactly one bare start() attempt (and none otherwise).
C7_WakeFailsOpen ==
    (last_input.kind = "touch" /\ last_input.standby) =>
        /\ ~standby_mode
        /\ hist.wake_log.woke
        /\ hist.wake_log.fallback = (IF hist.wake_log.raised THEN 1 ELSE 0)
\* a wake whose try block raised and whose fallback start() was made
C7_Witness ==
    /\ last_input.kind = "touch" /\ last_input.standby
    /\ hist.wake_log.raised /\ hist.wake_log.fallback = 1
    /\ ~standby_mode

\* C8 (as claimed): in Standby any touch click and any remote datagram
\* handled by the main loop wakes the device.
C8_AnyInputWakes == last_input.standby => ~standby_mode
\* C8 (amended): in Standby a touch click dequeued by the main loop calls
\* wake_from_standby, after which PowerState is Active; a remote datagram
\* is handled without waking, PowerState stays Standby.
C8_TouchWakesRemoteDoesNot ==
    /\ (last_input.kind = "touch" /\ last_input.standby) => ~standby_mode
    /\ (last_input.kind = "udp" /\ last_input.standby) => standby_mode
\* a click was dequeued in Standby and the device is awake
C8_Witness ==
    /\ last_input = [kind |-> "touch", standby |-> TRUE]
    /\ ~standby_mode /\ hist.wake_log.woke /\ pc = "touch"

\* C9: enter_standby stops the backend and then issues the six power-down
\* directives in their fixed order; a failing directive does not keep the
\* later ones from being issued.
C9_AllDirectivesIssued ==
    hist.standby_log.entered =>
        /\ hist.standby_log.stopped
        /\ hist.standby_log.issued = PowerDownDirectives

\* C10: ISO_UP/ISO_DOWN and SHUTTER_UP/SHUTTER_DOWN, from the remote channel
\* or from the touch arrows, set the index to (index + 1) mod N resp.
\* (index - 1) mod N with N = 8 ISO entries and N = 13 shutter entries: UP
\* from N-1 gives 0 and DOWN from 0 gives N-1.
C10_IndicesWrap ==
    LET c == hist.last_change
        up(i, n) == IF i = n - 1 THEN 0 ELSE i + 1
        down(i, n) == IF i = 0 THEN n - 1 ELSE i - 1
    IN  /\ c.what = "ISO_UP" => current_iso_index = up(c.before, 8)
        /\ c.what = "ISO_DOWN" => current_iso_index = down(c.before, 8)
        /\ c.what = "SHUTTER_UP" => current_shutter_index = up(c.before, 13)
        /\ c.what = "SHUTTER_DOWN" => current_shutter_index = down(c.before, 13)
\* a touch on the ISO down arrow at index 0 has wrapped to the last entry
C10_Witness ==
    /\ hist.last_change = [what |-> "ISO_DOWN", src |-> "touch", before |-> 0]
    /\ current_iso_index = 7

\* C11: the session is created inactive; START_REMOTE sets active and
\* last_heartbeat = now; STOP_REMOTE clears active; HEARTBEAT sets
\* last_heartbeat = now and leaves active alone; the session is active
\* exactly from a START_REMOTE until the next STOP_REMOTE or the next
\* heartbeat-timeout check that finds the lease expired.
C11_SessionLifecycle ==
    LET l == hist.udp_log
    IN  /\ remote_active <=> hist.session = "started"
        /\ hist.session \in {"created", "started", "stopped", "expired"}
        /\ (pc = "udp" /\ l.cmd = "START_REMOTE") =>
              (remote_active /\ remote_last_heartbeat = now)
        /\ (pc = "udp" /\ l.cmd = "STOP_REMOTE") =>
              (~remote_active /\ remote_last_heartbeat = l.hb)
        /\ (pc = "udp" /\ l.cmd = "HEARTBEAT") =>
              (remote_active = l.active /\ remote_last_heartbeat = now)
\* a STOP_REMOTE has just deactivated a session that START_REMOTE had opened
C11_Witness ==
    /\ pc = "udp" /\ hist.udp_log.cmd = "STOP_REMOTE"
    /\ hist.udp_log.active /\ hist.session = "stopped" /\ ~remote_active

\* C12: a remote CAPTURE takes the path of the button: handling it sets
\* the flag and makes no backend call (to the end of that tick the flag
\* stays set, no transition has started and the backend is as it was); the
\* capture is started by the flag step of a later tick, under the one
\* debounce timer shared with the button: transitions start at least
\* BUTTON_DEBOUNCE apart and a trigger observed sooner is dropped.
C12_RemoteCaptureAsButton ==
    LET l == hist.udp_log
    IN  /\ (pc \in {"udp", "preview", "tick_end"} /\ l.cmd = "CAPTURE") =>
              /\ capture_pending
              /\ hist.transitions = l.transitions
              /\ camVars = l.cam
        /\ (pc \in CapturePcs) => (hist.cap_ran /\ hist.step_calls = 1)
        /\ (pc \in CapturePcs \cup {"clear"} /\ hist.cap_ran) =>
              last_capture_time - hist.prev_capture >= BUTTON_DEBOUNCE
        /\ (pc = "clear" /\ ~hist.cap_ran) =>
              now - last_capture_time < BUTTON_DEBOUNCE
\* one button press and one CAPTURE command: one of them started a
\* transition, the other has just been dropped by the debounce test
C12_Witness ==
    /\ pc = "clear" /\ ~hist.cap_ran
    /\ env.presses = MaxPresses - 1 /\ env.datagrams = MaxDatagrams - 1
    /\ hist.ntrig = 2 /\ hist.transitions = 1

\* C13: a datagram whose token is none of the eight commands, or that
\* cannot be decoded, changes nothing: the settings, the session, the
\* power state, the capture flag and the backend are as the drain found
\* them.  (Nothing is sent either: the program only ever reads the socket.)
C13_UnknownTokenDropped ==
    LET l == hist.udp_log
    IN  (pc \in {"udp", "preview"} /\ l.cmd \in Datagrams \ Commands) =>
            /\ settingsVars = l.settings
            /\ remote_active = l.active
            /\ remote_last_heartbeat = l.hb
            /\ standby_mode = l.standby
            /\ (hist.ntrig = l.ntrig => capture_pending = l.pending)
            /\ camVars = l.cam
\* an unrecognized token was handled while a session was active
C13_Witness ==
    /\ pc = "udp" /\ hist.udp_log.cmd = "FOO"
    /\ hist.udp_log.active /\ remote_active

\* C14: udp_check reads the socket to exhaustion: when it returns, every
\* datagram that was pending when it started has been read, also when one
\* of them cannot be decoded or the handling of one raises.
C14_DrainExhausts ==
    (pc = "preview" /\ hist.udp_log.cmd # "none") =>
        hist.udp_log.n >= hist.udp_log.batch

\* C15: the preview file and the status file are written to a temporary
\* file that is renamed over the fixed path: whatever the photo server
\* reads from a fixed path while the files are being replaced is one
\* complete version, the one the path held when it was opened or a newer
\* one, never a truncated or mixed file.
C15_ReaderSeesCompleteFile ==
    /\ shm.rdone =>
          /\ Len(shm.rgot) = Chunks
          /\ \A i \in 1..Chunks : shm.rgot[i] = shm.rgot[1]
          /\ shm.rgot[1] >= shm.rbase
    /\ \A path \in {SHARED_MEM_PREVIEW, SHARED_MEM_STATUS} :
          shm.dir[path] # 0 => shm.inodes[shm.dir[path]].len = Chunks
\* a read was completed while the publisher was writing the next version
C15_Witness ==
    /\ shm.rdone /\ Len(shm.rgot) = Chunks
    /\ pc \in {"shm_write", "shm_replace"}
    /\ shm.ver > shm.rgot[1]

\* C16: after every still-capture transition, successful or recovered, the
\* backend is in the preview configuration with the buffer_count that the
\* preview configuration had before the transition started.
C16_BufferCountRestored ==
    (pc = "clear" /\ hist.cap_ran) =>
        (camera_config = "preview" /\ buffer_count = hist.pre_buffers)

\* C17: after a successful still capture a debounce window of
\* BUTTON_DEBOUNCE is in force: no still-capture transition starts within
\* BUTTON_DEBOUNCE of the return of the last successful capture.
C17_WindowAfterSuccess ==
    (pc = "cap_stop" /\ hist.ok_end >= 0) =>
        last_capture_time - hist.ok_end >= BUTTON_DEBOUNCE

\* C18: after startup no failure is fatal: a failing backend call, file
\* write or directive, reached from a touch, a remote command, the button
\* flag or the preview step, is contained and the main loop goes on; run()
\* is never left.
C18_NoFailureFatal == pc # "exit"

\* C19: for raw points inside the calibration bounds (bounds included) and
\* every setting of swap_xy/invert_x/invert_y, the click that
\* calibrate_touch produces lies in [0, width) x [0, height).
C19_CalibrateInRange ==
    \A i \in 1..Len(touch_queue) :
        /\ 0 <= touch_queue[i][1] /\ touch_queue[i][1] < WIDTH
        /\ 0 <= touch_queue[i][2] /\ touch_queue[i][2] < HEIGHT

\* C20: apply_camera_settings is idempotent: once an invocation whose
\* set_controls calls all succeeded has returned, for any settings
\* (iso_index, shutter_index, grayscale) and any controls the backend had
\* before, a second invocation with the same settings leaves the controls
\* exactly as the first one left them.
C20_ApplyIdempotent ==
    hist.applied.clean => Applied(controls, settingsVars, 0) = controls
\* an invocation has changed the controls of a backend that had controls
\* set before, to a slow manual shutter in B/W mode
C20_Witness ==
    /\ hist.applied.clean /\ hist.applied.moved
    /\ env.prior # NoControls
    /\ grayscale_mode
    /\ controls["FrameRate"] > 0

C22_PublisherThrottled ==
    LET p == hist.pub
    IN  /\ p.n >= 2 => p.last - p.prev > SHM_SYNC_INTERVAL
        /\ p.wrote \in {<<>>, <<SHARED_MEM_PREVIEW>>,
                        <<SHARED_MEM_PREVIEW, SHARED_MEM_STATUS>>}
        /\ p.done => p.wrote = <<SHARED_MEM_PREVIEW, SHARED_MEM_STATUS>>
\* a second publish has completed, 0.3 s after the first
C22_Witness ==
    /\ hist.pub.n = 2
    /\ hist.pub.done
    /\ hist.pub.last - hist.pub.prev = SHM_SYNC_INTERVAL + 1

\* C23: the GPIO callback trigger_capture, on the thread of the GPIO
\* library, makes one write, capture_pending := True: the settings, the
\* session, the power state, the debounce timestamp, the backend, the
\* queues and the position of the main loop are as they were.
C23_CallbackWritesFlagOnly ==
    [][env'.presses < env.presses =>
          /\ capture_pending'
          /\ UNCHANGED <<settingsVars, remoteVars, standby_mode,
                         saved_brightness, last_capture_time, camVars,
                         uiVars, inputVars, threadVars, callers, pc, ticks,
                         now, shm, syncVars>>]_vars
\* the callback has just run during Standby, in the middle of a tick of
\* the main loop
C23_Witness ==
    /\ env.presses = 0
    /\ env.last_press = now
    /\ capture_pending
    /\ standby_mode
    /\ pc = "udp"

\* the step of the tick that a position of the main loop belongs to
StepOf(p) ==
    CASE p \in CapturePcs \cup {"top", "clear"} -> 1
      [] p = "touch" -> 2
      [] p = "udp" -> 3
      [] p = "preview" -> 4
      [] p \in {"shm_open", "shm_write", "shm_replace"} -> 5
      [] p = "tick_end" -> 6
      [] p = "exit" -> 7
\* C24: a tick of the main loop performs its steps in the order (a) act on
\* and clear the capture flag, (b) drain the touch queue until it is empty,
\* (c) drain the remote channel, (e) heartbeat check, preview and publish,
\* none out of turn; so a CAPTURE drained in tick N is acted on in a later
\* tick, and the status that the publish of a tick writes shows the
\* settings as steps (b) and (c) of that tick left them.
C24_TickOrder ==
    /\ [][pc' # "exit" =>
             /\ \/ pc = "tick_end" /\ pc' = "top"
                \/ /\ StepOf(pc) <= StepOf(pc')
                   /\ StepOf(pc') <= StepOf(pc) + 1
                \/ pc = "preview" /\ pc' = "tick_end"
             /\ (StepOf(pc) = 1 /\ pc' = "touch") => ~capture_pending'
             /\ (pc = "touch" /\ pc' # "touch") => touch_queue = <<>>
             /\ (pc = "top" /\ pc' \in {"cap_stop", "clear"}) =>
                    ticks > hist.capture_cmd_tick]_vars
    /\ []((pc = "tick_end" /\ hist.pub.done /\ hist.pub.tick = ticks) =>
             LET status == shm.inodes[shm.dir[SHARED_MEM_STATUS]].status
             IN  /\ status.iso = Item(ISO_VALUES, current_iso_index)
                 /\ status.shutter = Item(SHUTTER_LABELS, current_shutter_index))
\* a tick that started a capture for the CAPTURE of the tick before it,
\* changed the ISO by a touch and the shutter by a command, and published
C24_Witness ==
    /\ pc = "tick_end" /\ hist.pub.done /\ hist.pub.tick = ticks
    /\ hist.transitions = 1 /\ hist.capture_cmd_tick = ticks - 1
    /\ current_iso_index = 1
    /\ current_shutter_index = SHUTTER_LEN - 1
    /\ hist.udp_log.cmd = "SHUTTER_DOWN"
    /\ hist.last_change.what = "SHUTTER_DOWN"

\* C25: while PowerState is Standby the Capture Backend is stopped: in
\* every reachable state with standby_mode = TRUE the backend is not
\* running, whatever button presses, remote commands and touches occur
\* during Standby.
C25_StandbyBackendStopped == standby_mode => ~camera_started

\* C26: PowerState is Active at the start, and Standby freezes the preview:
\* no step taken while standby_mode is set refreshes the preview frame or
\* starts or continues a publish, so the preview and status files stay as
\* they were until wake.
C26_StandbyFreezesPreview ==
    /\ ~standby_mode
    /\ [][standby_mode =>
             /\ UNCHANGED syncVars
             /\ shm'.dir = shm.dir /\ shm'.inodes = shm.inodes
             /\ pc' \notin {"shm_open", "shm_write", "shm_replace"}]_vars
\* the preview step of a tick has been passed in Standby, with the files
\* of an earlier publish in /tmp
C26_Witness ==
    /\ standby_mode
    /\ pc = "tick_end"
    /\ shm.dir[SHARED_MEM_PREVIEW] # 0
    /\ shm.dir[SHARED_MEM_STATUS] # 0

\* C27: every status snapshot that is published is derived from the state
\* at the moment of the publish: mode is "remote" exactly when the session
\* is active, and then the heartbeat is at most 10 s old (the lease check
\* precedes the publish in the tick); iso and shutter are the display
\* labels of the current indices; status is "active".
C27_StatusDerived ==
    (pc = "tick_end" /\ hist.pub.done /\ hist.pub.tick = ticks) =>
        LET status == shm.inodes[shm.dir[SHARED_MEM_STATUS]].status
        IN  /\ status.mode = "remote" <=> remote_active
            /\ status.mode \in {"remote", "local"}
            /\ status.mode = "remote" =>
                   now - remote_last_heartbeat <= HEARTBEAT_TIMEOUT
            /\ status.iso = Item(ISO_VALUES, current_iso_index)
            /\ status.shutter = Item(SHUTTER_LABELS, current_shutter_index)
            /\ status.status = "active"
\* a status with mode "local" has been published in the tick that found
\* the lease of a session expired
C27_Witness ==
    /\ pc = "tick_end" /\ hist.pub.done /\ hist.pub.tick = ticks
    /\ hist.session = "expired"
    /\ shm.inodes[shm.dir[SHARED_MEM_STATUS]].status =
          [iso |-> "Auto", shutter |-> "Auto", mode |-> "local",
           status |-> "active"]

\* C28: the touch reader enqueues one Click per press-then-release pair,
\* computed by calibrate_touch from the most recent ABS_X and the most
\* recent ABS_Y value received before the release; axis events, a press
\* and a release without a press before it enqueue nothing; an error of
\* the read loop ends the thread and changes nothing else: the main loop,
\* the queues and the other inputs are as they were.
C28_OneClickPerPressRelease ==
    /\ [](/\ hist.ev.clicks = hist.ev.pairs
          /\ hist.ev.put => hist.ev.released
          /\ hist.ev.put =>
                /\ hist.click.raw = <<hist.ev.x, hist.ev.y>>
                /\ hist.click.out = calibrate_touch(hist.ev.x, hist.ev.y))
    /\ [][(touch_thread = "running" /\ touch_thread' = "dead") =>
             UNCHANGED <<pc, ticks, now, camVars, capture_pending,
                         last_capture_time, standby_mode, saved_brightness,
                         remoteVars, settingsVars, uiVars, inputVars,
                         lazy_pc, scan_threads, callers, shm, syncVars>>]_vars
\* all events used: the release of the one pair has enqueued the click of
\* the X of one point and the Y of the other
C28_Witness ==
    /\ env.events = 0
    /\ hist.ev.put /\ hist.ev.clicks = 1
    /\ hist.click.raw = <<RAW_POWER[1], 2100>>
    /\ touch_queue = <<hist.click.out>>

\* what the controls c hold for entry i of the shutter table
ShutterControlsOf(c, i) ==
    LET us == SHUTTER_SPEEDS[i + 1]
        period == IF c["FrameRate"] = 0 THEN 1000000 \div 30
                  ELSE c["FrameRate"]
    IN  IF us > 0
        THEN /\ c["ExposureTime"] = us
             /\ c["FrameRate"] = (IF 30 * us > 1000000 THEN us ELSE 0)
             /\ us <= period
        ELSE /\ c["FrameRate"] = 0
             /\ c["AeEnable"] = 1
\* C29: for every entry of the shutter table with a non-zero exposure,
\* apply_camera_settings sets ExposureTime to the microseconds of the entry
\* and a frame-rate ceiling of 30 fps, lowered to 10^6/exposure_us when
\* that is below 30, so that the exposure is never longer than the frame
\* period at the ceiling; the Auto entry sets the range 30..30 fps and
\* enables auto-exposure.  (FrameRate is 0 for (30.0, 30.0) and the frame
\* period in microseconds for a lowered ceiling.)
C29_ExposureWithinFramePeriod ==
    /\ hist.applied.clean => ShutterControlsOf(controls, current_shutter_index)
    /\ \A i \in 0..(SHUTTER_LEN - 1) :
          ShutterControlsOf(Applied(controls,
                                      <<current_iso_index, i, grayscale_mode>>,
                                      0), i)
\* the slowest shutter has been applied, by the SHUTTER_DOWN command from
\* the Auto entry
C29_Witness ==
    /\ hist.applied.clean
    /\ hist.last_change = [what |-> "SHUTTER_DOWN", src |-> "udp", before |-> 0]
    /\ controls["ExposureTime"] = 250000
    /\ controls["FrameRate"] = 250000

\* C30 as stated: with the calibration table of the program (x_min 280,
\* x_max 3820, y_min 290, y_max 3910, swap_xy, invert_x, invert_y) on the
\* 480x320 screen, calibrate_touch(2050, 2100) returns (227, 172).
C30_CentreIs227_172 ==
    (env.cal = touch_cal /\ hist.click.raw = <<2050, 2100>>
        /\ hist.click.out # <<>>) =>
        hist.click.out = <<227, 172>>
\* C30: with that table and screen, calibrate_touch(2050, 2100), computed
\* as swap, normalize, invert, clamp, scale and truncate, returns
\* (233, 164), a point near the centre (240, 160) of the screen.
C30_CentreIs233_164 ==
    (env.cal = touch_cal /\ hist.click.raw = <<2050, 2100>>
        /\ hist.click.out # <<>>) =>
        /\ hist.click.out = <<233, 164>>
        /\ hist.click.out = calibrate_touch(2050, 2100)
\* the reader has enqueued the click of the raw point (2050, 2100)
C30_Witness ==
    /\ env.cal = touch_cal
    /\ hist.click.raw = <<2050, 2100>>
    /\ hist.click.out # <<>>
    /\ Len(touch_queue) = 1

\* C31: in every reachable state 0 <= iso index < 8 and 0 <= shutter index
\* < 13, after any sequence of remote commands and touches on the arrows:
\* the lookups in ISO_VALUES and SHUTTER_SPEEDS stay inside the tables.
C31_IndicesInRange ==
    /\ current_iso_index \in 0 .. Len(ISO_VALUES) - 1
    /\ current_shutter_index \in 0 .. Len(SHUTTER_SPEEDS) - 1
\* shutter down at index 0 has taken the index to the last entry
C31_Witness ==
    /\ hist.last_change.what = "SHUTTER_DOWN"
    /\ hist.last_change.before = 0
    /\ current_shutter_index = Len(SHUTTER_SPEEDS) - 1

\* C32: HEARTBEAT never activates the session.  Handled while the session
\* is inactive (never started, stopped, or expired by the lease check) it
\* sets last_heartbeat to the time of handling and leaves active false, so
\* the status to publish says "local"; and the only step that takes active
\* from false to true is the handling of a START_REMOTE.
C32_HeartbeatNeverActivates ==
    /\ [](LET l == hist.udp_log
          IN  (pc = "udp" /\ l.cmd = "HEARTBEAT" /\ ~l.active) =>
                 /\ ~remote_active
                 /\ remote_last_heartbeat = now
                 /\ StatusSnapshot.mode = "local")
    /\ [][(~remote_active /\ remote_active') =>
             (pc = "udp" /\ sock # <<>> /\ Head(sock) = "START_REMOTE")]_vars
\* a heartbeat has been handled after the lease of a started session expired
C32_Witness ==
    /\ pc = "udp" /\ hist.udp_log.cmd = "HEARTBEAT"
    /\ hist.session = "expired"
    /\ ~remote_active /\ remote_last_heartbeat = now

C34_ControlsFromSettingsAlone ==
    (hist.last_change.what # "none" /\ hist.applied.clean /\ pc # "exit") =>
        controls = Applied(NoControls, settingsVars, 0)

\* C35: the flag is cleared only after capture_photo has returned: the only
\* step that takes it from set to clear is the assignment that follows the
\* call; while the call runs no other capture attempt starts; and the step
\* that ends the flag step leaves the flag false however many presses set
\* it since the loop observed it, so they are absorbed into that capture.
C35_TriggersDuringCaptureAbsorbed ==
    /\ [][(capture_pending /\ ~capture_pending') => pc = "clear"]_vars
    /\ [][(pc \in CapturePcs \cup {"clear"}) =>
             /\ hist'.transitions = hist.transitions
             /\ last_capture_time' = last_capture_time]_vars
    /\ [][(pc = "clear" /\ pc' # "clear") =>
             (~capture_pending' /\ pc' = "touch")]_vars
\* a press of the button during the capture was cleared with the flag
C35_Witness ==
    /\ pc = "touch" /\ hist.absorbed >= 1 /\ ~capture_pending
    /\ hist.cap_ran /\ hist.transitions = 1 /\ hist.ntrig >= 2

\* C36: a trigger that the debounce test rejects (the flag is observed less
\* than BUTTON_DEBOUNCE after the start of the last attempt that was not
\* rejected) is discarded: capture_photo returns at once, with no backend
\* call, no capture_file and last_capture_time as it was, and the flag is
\* cleared in the same tick, so the trigger is not taken up later.
C36_RejectedTriggerDiscarded ==
    /\ [][(/\ pc = "top" /\ pc' # "top" /\ capture_pending
           /\ now - last_capture_time < BUTTON_DEBOUNCE) =>
             /\ pc' = "clear"
             /\ UNCHANGED <<camVars, callers, last_capture_time, now, ticks>>
             /\ hist'.transitions = hist.transitions
             /\ ~hist'.cap_ran]_vars
    /\ [][(pc = "clear" /\ pc' # "clear" /\ ~hist.cap_ran) =>
             /\ ~capture_pending'
             /\ UNCHANGED <<camVars, callers, last_capture_time, now, ticks>>]_vars
\* the flag of a rejected trigger has been cleared in the second tick, the
\* one attempt made so far being that of the first tick
C36_Witness ==
    /\ pc = "touch" /\ ~hist.cap_ran /\ hist.seen >= 1
    /\ ~capture_pending /\ hist.sets = 0
    /\ hist.transitions = 1 /\ ticks = 1

\* C37: the ISO index, the shutter index and the grayscale flag are
\* assigned before apply_camera_settings is called and are not taken back
\* when a set_controls call of it fails: after such a call the setting has
\* its new value all the same (and may differ from the controls that the
\* backend was given).
C37_SettingKeptAfterFailedApply ==
    LET c == hist.last_change
    IN  ~hist.applied.clean =>
           /\ c.what = "ISO_UP" => current_iso_index = IsoUp(c.before)
           /\ c.what = "ISO_DOWN" => current_iso_index = IsoDown(c.before)
           /\ c.what = "SHUTTER_UP" =>
                 current_shutter_index = ShutterUp(c.before)
           /\ c.what = "SHUTTER_DOWN" =>
                 current_shutter_index = ShutterDown(c.before)
           /\ c.what = "BW" => grayscale_mode = (c.before = 0)
\* a remote ISO_UP whose set_controls raised: the index says ISO 100, the
\* backend has not been given that gain, and the main loop goes on
C37_Witness ==
    /\ hist.last_change = [what |-> "ISO_UP", src |-> "udp", before |-> 0]
    /\ ~hist.applied.clean
    /\ current_iso_index = 1
    /\ controls["AnalogueGain"] # Item(ISO_NUMBERS, current_iso_index)
    /\ pc = "preview"

\* C38: a click taken from the queue while the device is in Standby only
\* wakes it: the click is consumed and is not given to handle_touch, so the
\* settings, the UI mode and the popups stay as they were; Standby ends
\* with that click alone, and a click taken from the queue in the Active
\* state is the oldest one, is removed, and has the effect of handle_touch.
C38_WakeClickConsumed ==
    /\ [][(standby_mode /\ ~standby_mode') =>
             /\ pc = "touch" /\ touch_queue # <<>>
             /\ touch_queue' = Tail(touch_queue)
             /\ pc' = "touch"
             /\ UNCHANGED <<settingsVars, uiVars, scan_threads>>]_vars
    /\ [][(/\ pc = "touch" /\ standby_mode
           /\ Len(touch_queue') < Len(touch_queue)) => ~standby_mode']_vars
    /\ [][(/\ pc = "touch" /\ ~standby_mode
           /\ Len(touch_queue') < Len(touch_queue)) =>
             /\ touch_queue' = Tail(touch_queue)
             /\ handle_touch(Head(touch_queue)[1], Head(touch_queue)[2])]_vars
\* in one tick a click has woken the device and the click after it has
\* been dispatched: it opened the power popup
C38_Witness ==
    /\ hist.wake_log.this_tick /\ ~standby_mode
    /\ show_power_popup /\ pc = "touch"
    /\ last_input = [kind |-> "touch", standby |-> FALSE]

\* C39: the remote ISO_UP, ISO_DOWN, SHUTTER_UP, SHUTTER_DOWN and CAPTURE
\* commands are not gated on the remote session: whether the session is
\* active or not, handling one moves the index by one step modulo the
\* table length, resp. sets the capture flag, and leaves the session's
\* active flag and last heartbeat as they were.
C39_CommandsNotGated ==
    [][(/\ pc = "udp" /\ sock # <<>> /\ sock' = Tail(sock)
        /\ Head(sock) \in SettingCommands \cup {"CAPTURE"}) =>
          LET cmd == Head(sock)
          IN  /\ UNCHANGED remoteVars
              /\ cmd = "CAPTURE" =>
                    capture_pending' /\ UNCHANGED settingsVars
              /\ cmd # "CAPTURE" => UNCHANGED capture_pending
              /\ current_iso_index' =
                    IF cmd = "ISO_UP" THEN (current_iso_index + 1) % 8
                    ELSE IF cmd = "ISO_DOWN" THEN (current_iso_index - 1) % 8
                    ELSE current_iso_index
              /\ current_shutter_index' =
                    IF cmd = "SHUTTER_UP"
                    THEN (current_shutter_index + 1) % 13
                    ELSE IF cmd = "SHUTTER_DOWN"
                    THEN (current_shutter_index - 1) % 13
                    ELSE current_shutter_index]_vars
\* ISO_UP has been handled with no session started, SHUTTER_DOWN after it
\* likewise: both indices have moved and the session is as it was created
C39_Witness ==
    /\ pc = "udp" /\ hist.udp_log.cmd = "SHUTTER_DOWN"
    /\ ~hist.udp_log.active /\ hist.session = "created"
    /\ ~remote_active /\ remote_last_heartbeat = 0
    /\ current_iso_index = 1 /\ current_shutter_index = 12

\* C40: wake_from_standby invoked while the device is Active does nothing:
\* no power directive is issued and no backend call is made (no exception
\* budget is used, no time passes, the wake history is not written), the
\* power state and every other variable are as before the call.
C40_WakeWhileActiveNoOp ==
    [][(/\ pc = "touch" /\ ~standby_mode
        /\ last_input'.kind = "call" /\ last_input.kind # "call") =>
          UNCHANGED <<pc, ticks, now, camVars, capture_pending,
                      last_capture_time, standby_mode, saved_brightness,
                      remoteVars, settingsVars, uiVars, touch_queue, sock,
                      threadVars, callers, env, shm, syncVars, hist>>]_vars
\* the method has been called in the Active state after a standby cycle,
\* with a click waiting in the queue
C40_Witness ==
    /\ last_input = [kind |-> "call", standby |-> FALSE]
    /\ ~standby_mode /\ pc = "touch"
    /\ hist.standby_log.entered /\ hist.wake_log.woke
    /\ touch_queue # <<>>

====
